---- MODULE Spec2Model ----
(***************************************************************************)
(* Model of the `run` subsystem of WCPCI: the job engine (run/job.rs,      *)
(* run/runner.rs, run/worker.rs), the RunManager (run/manager.rs) and the  *)
(* service-side Worker (run/worker/service_side.rs, run/worker/mod.rs).    *)
(*                                                                         *)
(* Five specifications share the module.  SpecJob runs one job through     *)
(* Job::run in the worker process and Worker::_spawn in the service.       *)
(* SpecMgr runs the RunManager and its spawned job tasks.  SpecWorker runs *)
(* one service-side Worker through its command executions.  SpecProc runs  *)
(* one worker process (run/worker/worker_side.rs, run/worker/isolation)    *)
(* against the handshake of Worker::new.  SpecSave runs the save_run calls *)
(* (run/manager.rs) made for one participant and one problem.              *)
(***************************************************************************)
EXTENDS Integers, Sequences, FiniteSets, TLC

\* ------------------------------------------------------------------------
\* Bounds
\* ------------------------------------------------------------------------

\* Largest number of test cases of a Judging job.
MaxCases == 3

\* Number of job ids the manager hands out (cap of id_counter).
MaxJobs == 2

\* RunConfig.max_program_length, scaled down.
MaxProgramLength == 2

\* ------------------------------------------------------------------------
\* CaseStatus, JobState (run/job.rs)
\* ------------------------------------------------------------------------

\* Captured output / diagnostics carried by an error (abstract texts).
Texts == {"out_a", "out_b"}

Pending == [tag |-> "Pending", penalty |-> FALSE, msg |-> ""]
Running == [tag |-> "Running", penalty |-> FALSE, msg |-> ""]
NotRun == [tag |-> "NotRun", penalty |-> FALSE, msg |-> ""]

Passed(out) == [tag |-> "Passed", penalty |-> FALSE, msg |-> out]

Failed(penalty, m) == [tag |-> "Failed", penalty |-> penalty, msg |-> m]

\* "No JobState": the value of a JobState slot that holds nothing yet.
NoState == [type |-> "None", cases |-> <<>>, complete |-> FALSE, status |-> Pending]

new_judging(n) == [type |-> "Judging", cases |-> [i \in 1..n |-> Pending], complete |-> FALSE, status |-> Pending]

new_testing == [type |-> "Testing", cases |-> <<>>, complete |-> FALSE, status |-> Pending]

new_for_op(op, n) == IF op = "Judging" THEN new_judging(n) ELSE new_testing

JobLen(s) == IF s.type = "Judging" THEN Len(s.cases) ELSE 1

JobComplete(s) ==
    IF s.type = "Judging" THEN s.complete
    ELSE s.status.tag \in {"Passed", "Failed", "NotRun"}

\* cases[0] = Running (indices are 1-based here).
start_first(s) ==
    IF s.type = "Judging" THEN [s EXCEPT !.cases[1] = Running]
    ELSE [s EXCEPT !.status = Running]

\* complete_case without the final cases[idx] = status.
complete_case_keeps_idx(s, idx, st) ==
    IF s.type = "Judging"
    THEN IF idx = Len(s.cases)
         THEN [s EXCEPT !.complete = TRUE]
         ELSE IF st.tag = "Failed"
              THEN [s EXCEPT !.complete = TRUE,
                             !.cases = [i \in 1..Len(s.cases) |->
                                          IF i > idx THEN NotRun ELSE s.cases[i]]]
              ELSE [s EXCEPT !.cases[idx + 1] = Running]
    ELSE [s EXCEPT !.status = st]

\* complete_case whose Failed branch leaves the later cases as they are.
complete_case_leaves_later(s, idx, st) ==
    IF s.type = "Judging"
    THEN IF idx = Len(s.cases) \/ st.tag = "Failed"
         THEN [s EXCEPT !.complete = TRUE, !.cases[idx] = st]
         ELSE [s EXCEPT !.cases = [i \in 1..Len(s.cases) |->
                                     IF i = idx + 1 THEN Running
                                     ELSE IF i = idx THEN st
                                     ELSE s.cases[i]]]
    ELSE [s EXCEPT !.status = st]

\* complete_case(idx, status), idx 1-based.
complete_case(s, idx, st) ==
    IF s.type = "Judging"
    THEN IF idx = Len(s.cases)
         THEN [s EXCEPT !.complete = TRUE, !.cases[idx] = st]
         ELSE IF st.tag = "Failed"
              THEN [s EXCEPT !.complete = TRUE,
                             !.cases = [i \in 1..Len(s.cases) |->
                                          IF i > idx THEN NotRun
                                          ELSE IF i = idx THEN st
                                          ELSE s.cases[i]]]
              ELSE [s EXCEPT !.cases = [i \in 1..Len(s.cases) |->
                                          IF i = idx + 1 THEN Running
                                          ELSE IF i = idx THEN st
                                          ELSE s.cases[i]]]
    ELSE [s EXCEPT !.status = st]

\* position(|c| c is Running).unwrap_or(0), 1-based.
RunningPos(s) ==
    IF \E i \in 1..Len(s.cases) : s.cases[i].tag = "Running"
    THEN CHOOSE i \in 1..Len(s.cases) :
            /\ s.cases[i].tag = "Running"
            /\ \A j \in 1..(i - 1) : s.cases[j].tag # "Running"
    ELSE 1

force_fail(s, m) ==
    IF s.type = "Judging"
    THEN complete_case(s, RunningPos(s), Failed(FALSE, m))
    ELSE [s EXCEPT !.status = Failed(TRUE, m)]

\* An Option<String>.
NoneStr == [some |-> FALSE, msg |-> ""]

SomeStr(m) == [some |-> TRUE, msg |-> m]

\* The first Failed case of a Judging state, 1-based; 0 if there is none.
FirstFailed(s) ==
    IF \E i \in 1..Len(s.cases) : s.cases[i].tag = "Failed"
    THEN CHOOSE i \in 1..Len(s.cases) :
            /\ s.cases[i].tag = "Failed"
            /\ \A j \in 1..(i - 1) : s.cases[j].tag # "Failed"
    ELSE 0

\* last_error with the 1-based position as its index.
last_error_one_based(s) ==
    IF s.type = "Judging"
    THEN IF FirstFailed(s) = 0
         THEN [idx |-> JobLen(s), penalty |-> FALSE, error |-> NoneStr]
         ELSE [idx |-> FirstFailed(s),
               penalty |-> s.cases[FirstFailed(s)].penalty,
               error |-> SomeStr(s.cases[FirstFailed(s)].msg)]
    ELSE IF s.status.tag = "Failed"
         THEN [idx |-> 0, penalty |-> s.status.penalty, error |-> SomeStr(s.status.msg)]
         ELSE [idx |-> 0, penalty |-> FALSE, error |-> NoneStr]

\* last_error: (index, penalty, error) of the first Failed case, the index
\* 0-based as in the code; (len, false, None) without a Failed case.
last_error(s) ==
    IF s.type = "Judging"
    THEN IF FirstFailed(s) = 0
         THEN [idx |-> JobLen(s), penalty |-> FALSE, error |-> NoneStr]
         ELSE [idx |-> FirstFailed(s) - 1,
               penalty |-> s.cases[FirstFailed(s)].penalty,
               error |-> SomeStr(s.cases[FirstFailed(s)].msg)]
    ELSE IF s.status.tag = "Failed"
         THEN [idx |-> 0, penalty |-> s.status.penalty, error |-> SomeStr(s.status.msg)]
         ELSE [idx |-> 0, penalty |-> FALSE, error |-> NoneStr]

\* JudgeRun::from_job_state (problem, user, program and language left out).
from_job_state(s, ran_at) ==
    [amount_run |-> last_error(s).idx,
     total_cases |-> JobLen(s),
     error |-> last_error(s).error,
     ran_at |-> ran_at]

\* JudgeRun::success.
success(run) == run.amount_run = run.total_cases /\ ~run.error.some

\* ------------------------------------------------------------------------
\* CaseError (run/runner.rs, run/worker/mod.rs)
\* ------------------------------------------------------------------------

Err(kind, data) == [kind |-> kind, data |-> data]

\* The runner's CaseError: Logic, Runtime(String), Compilation(String),
\* Judge(String).
RunnerCaseErrors ==
    {Err("Logic", "")} \cup {Err(k, d) : k \in {"Runtime", "Compilation", "Judge"}, d \in Texts}

\* The worker's CaseError adds Cancelled, HardTimeLimitExceeded,
\* CpuTimeExceeded(u64) and MemoryLimitExceeded(u64); the numeric payloads
\* are kept as abstract texts.
CaseErrors ==
    RunnerCaseErrors
      \cup {Err("Cancelled", ""), Err("HardTimeLimitExceeded", "")}
      \cup {Err(k, d) : k \in {"CpuTimeExceeded", "MemoryLimitExceeded"}, d \in Texts}

gives_penalty(e) ==
    e.kind \in {"CpuTimeExceeded", "MemoryLimitExceeded", "Logic", "Runtime"}

should_kill_worker(e) ==
    e.kind \in {"HardTimeLimitExceeded", "CpuTimeExceeded", "MemoryLimitExceeded", "Judge"}

CaseErrorToString(e, details) ==
    CASE e.kind = "Logic" -> "Logic Error"
      [] e.kind = "Runtime" ->
            IF details THEN "Runtime Error:\n" \o e.data ELSE "Runtime Error"
      [] e.kind = "Compilation" ->
            IF details THEN "Compilation Error:\n" \o e.data ELSE "Compilation Error"
      [] e.kind = "CpuTimeExceeded" ->
            IF details THEN "Time Limit Exceeded\nYour time: " \o e.data
            ELSE "Time Limit Exceeded"
      [] e.kind = "MemoryLimitExceeded" ->
            IF details THEN "Memory Limit Exceeded\nYour memory usage: " \o e.data
            ELSE "Memory Limit Exceeded"
      [] e.kind = "HardTimeLimitExceeded" -> "Hard Time Limit Exceeded"
      [] e.kind = "Judge" -> "Judge Error"
      [] e.kind = "Cancelled" -> "Run Cancelled"

StatusFromCaseError_LogicOnly(e) ==
    Failed(e.kind \in {"Logic"}, CaseErrorToString(e, FALSE))

\* impl From<CaseError> for CaseStatus: the penalty flag is
\* matches!(val, Logic | Runtime(_)); the message is the error's short text.
StatusFromCaseError(e) ==
    Failed(e.kind \in {"Logic", "Runtime"}, CaseErrorToString(e, FALSE))

\* ------------------------------------------------------------------------
\* State of the job engine: Job::run in the worker process (run/job.rs) and
\* Worker::spawn in the service (run/worker.rs)
\* ------------------------------------------------------------------------

VARIABLES
    jop,      \* JobRequest.op: "Judging" or "Testing"
    jstate,   \* Job.state, the JobState in the worker process
    jpc,      \* position of Job::run
    ji,       \* index of the case Job::run is at (1-based)
    chan,     \* lines the worker process printed and the service has not read
    wstate,   \* Worker.state, the service's copy of the JobState
    wpc,      \* position of Worker::spawn
    wret,     \* the JobState Worker::spawn returned
    jfold,    \* the last outcome Job::run folded: [err, status, op]
    wforced   \* the last force_fail of the service: [msg, active], active the
              \* index of the case that was Running (0: none, 1 for Testing)

jobVars == <<jop, jstate, jpc, ji, chan, wstate, wpc, wret, jfold, wforced>>

\* ------------------------------------------------------------------------
\* State of the RunManager and of the job tasks it spawns (run/manager.rs)
\* ------------------------------------------------------------------------

VARIABLES
    mjobs,    \* RunManager.jobs: user -> id of the job whose handle the map
              \* holds (0: no entry)
    mid,      \* RunManager.id_counter
    mtasks,   \* per job id: the spawned task, its handle and its token
    mevents,  \* job-started events published, in order
    mlast     \* the last request_job call: its input and its result

mgrVars == <<mjobs, mid, mtasks, mevents, mlast>>

\* ------------------------------------------------------------------------
\* State of one service-side Worker and of its child processes
\* (run/worker/service_side.rs)
\* ------------------------------------------------------------------------

VARIABLES
    kpc,      \* where the Worker is: "ready" (between commands), "awaiting"
              \* (in the select loop of _exec_cmd), "inner_done" (_exec_cmd
              \* has returned to exec_cmd), "released" (finished or dropped)
    ktoken,   \* Worker.shutdown is cancelled
    kchild,   \* Worker.child: "alive", "exited" (not yet waited for), "reaped"
    ksub,     \* the PID-1 grandchild (sub_child_pid): "alive" or "dead"
    kpipe,    \* the line in the worker's stdout pipe, not yet read
    ktimer,   \* the hard timeout of the current wait has elapsed
    kcmd,     \* the command being executed: [kind, track, n, replied]
    kinner,   \* what _exec_cmd returned: [res, early]
    kres,     \* what the last compile / run_cmd / run_case call returned
    klog,     \* what the Worker did for the current command, in order
    kobs,     \* what was observed of the current command (history)
    kdirs,    \* [tmp, cgroup]: Worker.tmp_dir and the cgroup directory exist
    khigh,    \* memory.high of the Worker's cgroup: "max" (as the kernel
              \* creates it) or "ceiling" (the problem's soft memory limit)
    ktimeout  \* Worker.timeout_user, in seconds (hard_timeout_user_secs)

wkVars == <<kpc, ktoken, kchild, ksub, kpipe, ktimer, kcmd, kinner, kres, klog, kobs, kdirs, khigh,
            ktimeout>>

\* ------------------------------------------------------------------------
\* State of one worker process and of the service's Worker::new that
\* started it (run/worker/worker_side.rs, run/worker/isolation,
\* run/worker/service_side.rs)
\* ------------------------------------------------------------------------

VARIABLES
    ppc,      \* where the worker process is: "await_init", "isolate",
              \* "write_program", "loop", "running" (a command is spawned),
              \* "exited"
    pdone,    \* the isolation steps that have succeeded, in order
    pin,      \* every line the service wrote to the worker's stdin, in order
    pread,    \* how many of them the worker process has read
    pout,     \* every line the worker process printed, in order
    sread,    \* how many of them Worker::new has read
    pexit,    \* [child, sub, why]: exit status of the direct child and of
              \* the PID-1 grandchild ("none": not ended; "unborn": not
              \* forked) and how the worker ended ("stop", "error", "killed")
    pcmds,    \* ids of the RunCmds the worker process has read, in order
    spc,      \* where Worker::new is: "start", "await_request",
              \* "await_ready", "ready" (returned Ok), "failed" (returned Err)
    senv      \* [cancel, timer, mapped, sent, secs]: the token is cancelled,
              \* the internal timeout has elapsed, what map_uid_gid returned,
              \* lines sent after Worker::new, hard_timeout_internal_secs

procVars == <<ppc, pdone, pin, pread, pout, sread, pexit, pcmds, spc, senv>>

\* ------------------------------------------------------------------------
\* One participant's completion record of one problem and the save_run
\* calls made for it (run/manager.rs, problems/completions.rs)
\* ------------------------------------------------------------------------

VARIABLES
    vcompl,   \* the problem_completion row: [exists, completed_at (0: NULL),
              \* number_wrong, upserts (how often it was written)]
    vruns     \* the save_run calls so far, in order: [ran_at, success,
              \* penalty, eligible, ok]

saveVars == <<vcompl, vruns>>

\* ------------------------------------------------------------------------
\* The cgroup counters of one tracked run command and the select loop of
\* _exec_cmd that reads them (run/worker/service_side.rs,
\* run/worker/isolation/cgroup.rs)
\* ------------------------------------------------------------------------

VARIABLES
    tlimit,   \* soft_limits.0: the CPU ceiling of the problem, in seconds
    tbase,    \* base_stats: the CGroupStats update_stats stored in last_stat
    tcg,      \* the counters of the worker's cgroup: cpu.stat user_usec and
              \* the "high" count of memory.events
    tpc,      \* where _exec_cmd is: "awaiting" (in the select loop), "done"
    tres,     \* what _exec_cmd returned: [kind, usage] (usage: the payload of
              \* CpuTimeExceeded / MemoryLimitExceeded, else 0)
    tobs,     \* the last read of the stats that succeeded: [at ("none",
              \* "poll", "completion"), diff (the CGroupStats delta)]
    tcmd      \* the tracked command: [n (its number), sent (the counters of
              \* the cgroup when its RunCmd was sent), idle (CPU was used
              \* since it ended)]

statVars == <<tlimit, tbase, tcg, tpc, tres, tobs, tcmd>>

\* A test case and the judging of one output against it (TestCase::check_output)
VARIABLES
    ccase,    \* the TestCase: [expected_pattern, use_regex, case_insensitive]
    coutput,  \* the stdout of the program, a sequence of characters
    cverdict  \* what check_output returned last: "none", "true" or "false"

caseVars == <<ccase, coutput, cverdict>>

\* The cgroup tree of the service (isolation/cgroup.rs, IsolationConfig)
VARIABLES
    gpc,      \* RunManager::new: "start", "running" or "failed"
    gfs,      \* the cgroup directories that exist, each a path of names
    gself,    \* the cgroup the PID of the service is in
    gcgroups, \* IsolationConfig.cgroups: [some, root, service]
    gworkers  \* id -> [st, path]: "none", "live" (Worker::new returned),
              \* "failed" (Worker::new returned Err), "dropped"; its cgroup

cgVars == <<gpc, gfs, gself, gcgroups, gworkers>>

\* The timed waits of one Worker (Worker::wait_for and its callers)
VARIABLES
    hcfg,     \* [user, internal]: Worker.timeout_user / timeout_internal, in
              \* seconds
    hpc,      \* where the Worker is: "new", "waiting", "ready", "ended"
    hwait,    \* the wait_for in progress: [site, timeout]
    hclock,   \* seconds since the wait in progress began
    hcancel,  \* the shutdown token is cancelled
    hres      \* how the last wait ended: [site, res, at]

waitVars == <<hcfg, hpc, hwait, hclock, hcancel, hres>>

\* One removal of a cgroup (CGroup::shutdown / shutdown_sync)
VARIABLES
    rmode,    \* which of the two is called: "shutdown" or "shutdown_sync"
    rpc,      \* where it is: "start", "rmdir", "kill", "sleep", "ok", "err"
    rtimes,   \* its local `times`
    rdir,     \* the cgroup directory: "absent" or "present"
    rprocs,   \* how many processes the cgroup still has
    rlog      \* [rmdirs, kills]: rmdir attempts and cgroup.kill writes made

rmVars == <<rmode, rpc, rtimes, rdir, rprocs, rlog>>

\* The two pipes between one Worker and its worker process, line by line
VARIABLES
    qpc,      \* the Worker: "ready", "awaiting" (in _exec_cmd's select loop),
              \* "released"
    qn,       \* how many RunCmds the Worker has sent
    qtoken,   \* the job's token is cancelled
    qtimer,   \* the hard timeout of the current wait has elapsed
    qproc,    \* the worker process: "loop" (in ServiceMessage::wait_for),
              \* "running" (in run_cmd, the program is spawned), "dead"
    qrun,     \* the number of the RunCmd whose program runs (0: none)
    qin,      \* RunCmds written to the worker's stdin and not yet read
    qout,     \* lines written to the worker's stdout and not yet read, each
              \* [msg, of, by]: what it deserializes to, the RunCmd that was
              \* being run when it was written, who wrote it
    qres      \* [n, kind, reply]: the last call of exec_cmd, the kind of its
              \* result and the line it consumed

pairVars == <<qpc, qn, qtoken, qtimer, qproc, qrun, qin, qout, qres>>

\* One call of Worker::new and what it has created
VARIABLES
    ncfg,     \* [cgroups, parent]: iso.cgroups and iso.workers_parent are Some
    nid,      \* the id the Worker is made for
    nname,    \* the name of its temp directory and of its cgroup
    npc,      \* where the call is: "id_maps", "cgroup", "hard_limits",
              \* "make_temp", "spawn", "init", "returned"
    nfs,      \* [cgroup, tmp]: each "none", "exists", "removed" or "stuck"
              \* (its removal was tried and failed)
    nchild,   \* the worker process: "none", "alive", "reaped"
    nret      \* what the call returned: "none", "ok", "err"

newVars == <<ncfg, nid, nname, npc, nfs, nchild, nret>>

\* One call of get_uid_gid_maps
VARIABLES
    ipc,      \* where it is: "start", "uid", "gid", "done", "failed"
    iranges,  \* [uid, gid]: the allowed sub-id ranges, each [start, end)
    imaps     \* [uid, gid]: the outside ids chosen, each [root, runner]

idVars == <<ipc, iranges, imaps>>

\* The manager mutex and the slot locks of the RunManager
VARIABLES
    lop,      \* the operation that holds the manager mutex: [op, user, pc,
              \* left, found], pc "none", "in_mgr" or "in_slot" (it holds the
              \* lock of slot Head(left)), left the slots it still visits
    lslot,    \* per job: who holds the lock of its slot: "free", "op", "task"
    ljobs,    \* RunManager.jobs: per user the job of the map entry (0: none)
    lsome,    \* per job: its handle is Some
    ltask,    \* per job: its task: "none", "running", "want_slot" (it awaits
              \* the lock of its slot), "in_slot" (it holds it), "done"
    lnext     \* the id of the next job

lockVars == <<lop, lslot, ljobs, lsome, ltask, lnext>>

vars ==
    <<jobVars, mgrVars, wkVars, procVars, saveVars, statVars, caseVars, cgVars, waitVars,
      rmVars, pairVars, newVars, idVars, lockVars>>

restOfJob ==
    <<mgrVars, wkVars, procVars, saveVars, statVars, caseVars, cgVars, waitVars,
      rmVars, pairVars, newVars, idVars, lockVars>>

restOfMgr ==
    <<jobVars, wkVars, procVars, saveVars, statVars, caseVars, cgVars, waitVars,
      rmVars, pairVars, newVars, idVars, lockVars>>

restOfWk ==
    <<jobVars, mgrVars, procVars, saveVars, statVars, caseVars, cgVars, waitVars,
      rmVars, pairVars, newVars, idVars, lockVars>>

restOfProc ==
    <<jobVars, mgrVars, wkVars, saveVars, statVars, caseVars, cgVars, waitVars,
      rmVars, pairVars, newVars, idVars, lockVars>>

restOfSave ==
    <<jobVars, mgrVars, wkVars, procVars, statVars, caseVars, cgVars, waitVars,
      rmVars, pairVars, newVars, idVars, lockVars>>

restOfStat ==
    <<jobVars, mgrVars, wkVars, procVars, saveVars, caseVars, cgVars, waitVars,
      rmVars, pairVars, newVars, idVars, lockVars>>

restOfCase ==
    <<jobVars, mgrVars, wkVars, procVars, saveVars, statVars, cgVars, waitVars,
      rmVars, pairVars, newVars, idVars, lockVars>>

restOfCg ==
    <<jobVars, mgrVars, wkVars, procVars, saveVars, statVars, caseVars, waitVars,
      rmVars, pairVars, newVars, idVars, lockVars>>

restOfWait ==
    <<jobVars, mgrVars, wkVars, procVars, saveVars, statVars, caseVars, cgVars, rmVars,
      pairVars, newVars, idVars, lockVars>>

restOfRm ==
    <<jobVars, mgrVars, wkVars, procVars, saveVars, statVars, caseVars, cgVars, waitVars,
      pairVars, newVars, idVars, lockVars>>

restOfPair ==
    <<jobVars, mgrVars, wkVars, procVars, saveVars, statVars, caseVars, cgVars, waitVars,
      rmVars, newVars, idVars, lockVars>>

restOfNew ==
    <<jobVars, mgrVars, wkVars, procVars, saveVars, statVars, caseVars, cgVars, waitVars,
      rmVars, pairVars, idVars, lockVars>>

restOfId ==
    <<jobVars, mgrVars, wkVars, procVars, saveVars, statVars, caseVars, cgVars, waitVars,
      rmVars, pairVars, newVars, lockVars>>

restOfLock ==
    <<jobVars, mgrVars, wkVars, procVars, saveVars, statVars, caseVars, cgVars, waitVars,
      rmVars, pairVars, newVars, idVars>>


\* Nothing folded yet, nothing forced yet.
NoFold == [err |-> [kind |-> "None", data |-> ""], status |-> Pending, op |-> "None"]

NoForce == [msg |-> "", active |-> 0]

StateChange(s) == [kind |-> "StateChange", state |-> s]

Finished(s) == [kind |-> "Finished", state |-> s]

JobInit ==
    /\ jop \in {"Judging", "Testing"}
    /\ \E n \in 1..MaxCases :
          /\ jstate = new_for_op(jop, IF jop = "Judging" THEN n ELSE 1)
          /\ wstate = jstate
    /\ jpc = "start"
    /\ ji = 1
    /\ chan = <<>>
    /\ wpc = "running"
    /\ wret = NoState
    /\ jfold = NoFold
    /\ wforced = NoForce

\* The worker process lives until the service has returned from spawn.
ChildAlive == wpc # "returned"

\* Job::run: start_first, publish_state.
JobStartFirst ==
    /\ ChildAlive
    /\ jpc = "start"
    /\ jstate' = start_first(jstate)
    /\ chan' = Append(chan, StateChange(jstate'))
    /\ jpc' = "compile"
    /\ UNCHANGED <<jop, ji, wstate, wpc, wret, jfold, wforced>>

\* Job::run: runner.compile() returned Ok.
JobCompileOk ==
    /\ ChildAlive
    /\ jpc = "compile"
    /\ jpc' = "run"
    /\ UNCHANGED <<jop, jstate, ji, chan, wstate, wpc, wret, jfold, wforced>>

\* A compile fold that attaches the diagnostics whatever the operation is.
CompileFailStatus_details(op, e) ==
    IF e.kind = "Compilation"
    THEN Failed(FALSE, "Compile Error: " \o e.data)
    ELSE StatusFromCaseError(e)

\* The status Job::run gives a failed compile step.
CompileFailStatus(op, e) ==
    IF op = "Testing" /\ e.kind = "Compilation"
    THEN Failed(FALSE, "Compile Error: " \o e.data)
    ELSE StatusFromCaseError(e)

\* Job::run: runner.compile() returned Err(why); the job returns.
JobCompileErr ==
    /\ ChildAlive
    /\ jpc = "compile"
    /\ \E e \in {x \in RunnerCaseErrors : x.kind \in {"Compilation", "Judge"}} :
          /\ jstate' = complete_case(jstate, 1, CompileFailStatus(jop, e))
          /\ jfold' = [err |-> e, status |-> CompileFailStatus(jop, e), op |-> jop]
    /\ chan' = Append(chan, StateChange(jstate'))
    /\ jpc' = "done"
    /\ UNCHANGED <<jop, ji, wstate, wpc, wret, wforced>>

\* Outcomes of runner.run_case / runner.run_cmd.
RunOutcomes == {x \in RunnerCaseErrors : x.kind \in {"Logic", "Runtime", "Judge"}}

\* Job::run, Judging: one iteration of the loop over the cases.
JobRunCase ==
    /\ ChildAlive
    /\ jpc = "run"
    /\ jop = "Judging"
    /\ \/ /\ jstate' = complete_case(jstate, ji, Passed(""))
          /\ jfold' = jfold
       \/ \E e \in RunOutcomes :
             /\ jstate' = complete_case(jstate, ji, StatusFromCaseError(e))
             /\ jfold' = [err |-> e, status |-> StatusFromCaseError(e), op |-> jop]
    /\ chan' = Append(chan, StateChange(jstate'))
    /\ IF JobComplete(jstate') \/ ji = Len(jstate.cases)
       THEN jpc' = "done" /\ ji' = ji
       ELSE jpc' = "run" /\ ji' = ji + 1
    /\ UNCHANGED <<jop, wstate, wpc, wret, wforced>>

\* The status Job::run gives a failed test run.
TestFailStatus(e) ==
    IF e.kind = "Runtime"
    THEN Failed(TRUE, "Runtime Error: " \o e.data)
    ELSE StatusFromCaseError(e)

\* Job::run, Testing: the single run with the supplied input.
JobRunTest ==
    /\ ChildAlive
    /\ jpc = "run"
    /\ jop = "Testing"
    /\ \/ \E out \in Texts :
             /\ jstate' = complete_case(jstate, 1, Passed(out))
             /\ jfold' = jfold
       \/ \E e \in RunOutcomes :
             /\ jstate' = complete_case(jstate, 1, TestFailStatus(e))
             /\ jfold' = [err |-> e, status |-> TestFailStatus(e), op |-> jop]
    /\ chan' = Append(chan, StateChange(jstate'))
    /\ jpc' = "done"
    /\ UNCHANGED <<jop, ji, wstate, wpc, wret, wforced>>

\* run_from_child: Job::run returned, the Finished message is printed.
JobFinish ==
    /\ ChildAlive
    /\ jpc = "done"
    /\ chan' = Append(chan, Finished(jstate))
    /\ jpc' = "exited"
    /\ UNCHANGED <<jop, jstate, ji, wstate, wpc, wret, jfold, wforced>>


\* The case force_fail is about to fail, 0 when no case is Running.
ActiveCase(s) ==
    IF s.type = "Judging"
    THEN IF \E i \in 1..Len(s.cases) : s.cases[i].tag = "Running"
         THEN RunningPos(s) ELSE 0
    ELSE IF s.status.tag = "Running" THEN 1 ELSE 0

Forced(s, m) == [msg |-> m, active |-> ActiveCase(s)]

\* receive_worker_state: a Judging state of another length is ignored,
\* any other state replaces the service's copy.
receive_worker_state(cur, s) ==
    IF s.type = "Judging" /\ JobLen(s) # JobLen(cur) THEN cur ELSE s

\* Worker::_spawn, read_line branch: a StateChange line.
SvcStateChange ==
    /\ wpc = "running"
    /\ chan # <<>>
    /\ Head(chan).kind = "StateChange"
    /\ wstate' = receive_worker_state(wstate, Head(chan).state)
    /\ chan' = Tail(chan)
    /\ UNCHANGED <<jop, jstate, jpc, ji, wpc, wret, jfold, wforced>>

\* Worker::_spawn, read_line branch: the Finished line; the child is then
\* awaited.
SvcFinished ==
    /\ wpc = "running"
    /\ chan # <<>>
    /\ Head(chan).kind = "Finished"
    /\ wstate' = receive_worker_state(wstate, Head(chan).state)
    /\ chan' = Tail(chan)
    /\ wpc' = "cleanup"
    /\ UNCHANGED <<jop, jstate, jpc, ji, wret, jfold, wforced>>

\* Worker::_spawn, shutdown branch of the biased select (taken only when no
\* line is ready): force_fail("Run Cancelled"), then the child is killed.
SvcShutdown ==
    /\ wpc = "running"
    /\ chan = <<>>
    /\ wstate' = force_fail(wstate, "Run Cancelled")
    /\ wforced' = Forced(wstate, "Run Cancelled")
    /\ wpc' = "cleanup"
    /\ UNCHANGED <<jop, jstate, jpc, ji, chan, wret, jfold>>

\* Worker::judge_error (a Failed line, a failed id mapping, a failed output
\* check, or the child exiting early): force_fail("Judge Error"), then the
\* child is awaited.
SvcJudgeError ==
    /\ wpc = "running"
    /\ wstate' = force_fail(wstate, "Judge Error")
    /\ wforced' = Forced(wstate, "Judge Error")
    /\ wpc' = "cleanup"
    /\ UNCHANGED <<jop, jstate, jpc, ji, chan, wret, jfold>>

\* Worker::spawn, Ok branch: waiting for or killing the child succeeded and
\* _spawn returned the state.
SvcReturn ==
    /\ wpc = "cleanup"
    /\ wret' = wstate
    /\ wpc' = "returned"
    /\ UNCHANGED <<jop, jstate, jpc, ji, chan, wstate, jfold, wforced>>

\* Worker::spawn, Err branch: _spawn failed (a write to the child, the wait
\* or the kill failed): force_fail("Worker error: ..."), get_return.
SvcWorkerError ==
    /\ wpc \in {"running", "cleanup"}
    /\ \E d \in Texts :
          /\ wstate' = force_fail(wstate, "Worker error: " \o d)
          /\ wforced' = Forced(wstate, "Worker error: " \o d)
    /\ wret' = wstate'
    /\ wpc' = "returned"
    /\ UNCHANGED <<jop, jstate, jpc, ji, chan, jfold>>

JobNext ==
    \/ JobStartFirst /\ UNCHANGED restOfJob
    \/ JobCompileOk /\ UNCHANGED restOfJob
    \/ JobCompileErr /\ UNCHANGED restOfJob
    \/ JobRunCase /\ UNCHANGED restOfJob
    \/ JobRunTest /\ UNCHANGED restOfJob
    \/ JobFinish /\ UNCHANGED restOfJob
    \/ SvcStateChange /\ UNCHANGED restOfJob
    \/ SvcFinished /\ UNCHANGED restOfJob
    \/ SvcShutdown /\ UNCHANGED restOfJob
    \/ SvcJudgeError /\ UNCHANGED restOfJob
    \/ SvcReturn /\ UNCHANGED restOfJob
    \/ SvcWorkerError /\ UNCHANGED restOfJob



\* ------------------------------------------------------------------------
\* RunManager operations and the spawned job task (run/manager.rs)
\* ------------------------------------------------------------------------

Users == {"u1", "u2"}

Problems == {"p1"}

Ops == {"Judging", "Testing"}

\* A ManagerJobRequest: len is program.len(), lang whether language_key is a
\* key of language_runner_info.
Requests ==
    [user : Users, problem : Problems, op : Ops,
     len : {MaxProgramLength, MaxProgramLength + 1}, lang : BOOLEAN]

JobIds == 1..MaxJobs

\* What the database does to one persistence callback: no connection from
\* the pool, the contest lookup fails, the insert is issued and fails, or
\* the insert succeeds.
DbOutcomes == {"pool_err", "contest_err", "insert_err", "ok"}

\* No task spawned under this job id.  (late: the task released its handle
\* when the map entry of its user was that of a newer job.)
NoTask ==
    [pc |-> "none", user |-> "", problem |-> "", op |-> "", ret |-> "",
     slot |-> FALSE, cancelled |-> FALSE, db |-> "none", inserts |-> 0,
     scored |-> "none", late |-> FALSE]

\* start_job: the handle Some((problem_id, state_rx, token)), a fresh token,
\* and the spawned task about to call run_job.
NewTask(req) ==
    [pc |-> "running", user |-> req.user, problem |-> req.problem, op |-> req.op,
     ret |-> "", slot |-> TRUE, cancelled |-> FALSE, db |-> "none", inserts |-> 0,
     scored |-> "none", late |-> FALSE]

NoRequest == [seq |-> 0, req |-> [user |-> "", problem |-> "", op |-> "", len |-> 0, lang |-> FALSE], res |-> "none"]

MgrInit ==
    /\ mjobs = [u \in Users |-> 0]
    /\ mid = 1
    /\ mtasks = [j \in JobIds |-> NoTask]
    /\ mevents = <<>>
    /\ mlast = NoRequest

\* request_job: the user's map entry exists and its handle is Some.
LiveSlot(u) == mjobs[u] # 0 /\ mtasks[mjobs[u]].slot

\* The map entry of the user of job j is that of another, newer job.
Superseded(j) == mjobs[mtasks[j].user] # 0 /\ mjobs[mtasks[j].user] # j

\* An Err return: nothing of the manager changes.
Reject(why) ==
    [jobs |-> mjobs, id |-> mid, tasks |-> mtasks, events |-> mevents, res |-> why]

start_job_checks_late(req, id) ==
    [jobs |-> [mjobs EXCEPT ![req.user] = id],
     id |-> id + 1,
     tasks |-> [mtasks EXCEPT ![id] = NewTask(req)],
     events |-> IF req.len > MaxProgramLength THEN mevents
                ELSE Append(mevents, <<req.user, req.problem, id>>),
     res |-> IF req.len > MaxProgramLength THEN "Program too long" ELSE "Ok"]

\* A start_job whose length check also turns away a program of exactly
\* max_program_length bytes.
start_job_rejects_equal(req, id) ==
    IF req.len >= MaxProgramLength
    THEN [Reject("Program too long") EXCEPT !.id = id + 1]
    ELSE [jobs |-> [mjobs EXCEPT ![req.user] = id],
          id |-> id + 1,
          tasks |-> [mtasks EXCEPT ![id] = NewTask(req)],
          events |-> Append(mevents, <<req.user, req.problem, id>>),
          res |-> "Ok"]

\* start_job, with the id create_job_request drew (id_counter is already
\* incremented when the length check rejects).
start_job(req, id) ==
    IF req.len > MaxProgramLength
    THEN [Reject("Program too long") EXCEPT !.id = id + 1]
    ELSE [jobs |-> [mjobs EXCEPT ![req.user] = id],
          id |-> id + 1,
          tasks |-> [mtasks EXCEPT ![id] = NewTask(req)],
          events |-> Append(mevents, <<req.user, req.problem, id>>),
          res |-> "Ok"]

\* request_job, create_job_request and start_job.
request_job(req) ==
    IF LiveSlot(req.user) THEN Reject("User already has a job running")
    ELSE IF ~req.lang THEN Reject("Language not found")
    ELSE start_job(req, mid)

RequestJob ==
    /\ mid <= MaxJobs
    /\ \E req \in Requests :
          LET r == request_job(req) IN
            /\ mjobs' = r.jobs
            /\ mid' = r.id
            /\ mtasks' = r.tasks
            /\ mevents' = r.events
            /\ mlast' = [seq |-> 1 - mlast.seq, req |-> req, res |-> r.res]

\* A removal that cancels the token of every handle that is still Some.
CancelSlotsOf_everyone(us) ==
    [j \in JobIds |->
        IF mtasks[j].slot THEN [mtasks[j] EXCEPT !.cancelled = TRUE] ELSE mtasks[j]]

\* The tokens cancelled when the map entries of the users in us are removed:
\* those of the handles that are still Some.
CancelSlotsOf(us) ==
    [j \in JobIds |->
        IF (\E u \in us : mjobs[u] = j) /\ mtasks[j].slot
        THEN [mtasks[j] EXCEPT !.cancelled = TRUE]
        ELSE mtasks[j]]

\* shutdown_job(user_id): jobs.remove, then cancel the token of a Some handle.
ShutdownJob ==
    \E u \in Users :
        /\ mjobs[u] # 0
        /\ mjobs' = [mjobs EXCEPT ![u] = 0]
        /\ mtasks' = CancelSlotsOf({u})
        /\ UNCHANGED <<mid, mevents, mlast>>

\* shutdown(): jobs.drain, cancelling every Some handle's token.
Shutdown ==
    /\ \E u \in Users : mjobs[u] # 0
    /\ mjobs' = [u \in Users |-> 0]
    /\ mtasks' = CancelSlotsOf(Users)
    /\ UNCHANGED <<mid, mevents, mlast>>

\* The type of the JobState run_job returns: that of new_for_op(request.op).
run_job_state_type(op) == op

\* The spawned task: run_job(...).await returned (state, ran_at).  The job
\* may have cancelled its own token on the way (_exec_cmd does so for an
\* error that kills the worker).
TaskReturn ==
    \E j \in JobIds, self_cancelled \in BOOLEAN :
        /\ mtasks[j].pc = "running"
        /\ mtasks' = [mtasks EXCEPT ![j].pc = "returned",
                                    ![j].ret = run_job_state_type(mtasks[j].op),
                                    ![j].cancelled = @ \/ self_cancelled]
        /\ UNCHANGED <<mjobs, mid, mevents, mlast>>

persists_any_state(ret) == TRUE

\* A task that takes Testing states to the callback as well.
persists_testing_too(ret) == ret \in Ops

\* The spawned task goes on to the persistence callback only with a Judging
\* state: if !matches!(state, JobState::Judging { .. }) { take(); return }.
persists(ret) == ret = "Judging"

\* The spawned task, Testing state: handle.lock().await.take(), return.
TaskReleaseTesting ==
    \E j \in JobIds :
        /\ mtasks[j].pc = "returned"
        /\ ~persists(mtasks[j].ret)
        /\ mtasks' = [mtasks EXCEPT ![j].pc = "done", ![j].slot = FALSE,
                                    ![j].late = Superseded(j)]
        /\ UNCHANGED <<mjobs, mid, mevents, mlast>>

\* save_run issues judge_run.write_to_db once the pool gave a connection and
\* Contest::get found the contest.
InsertsOf(db) == IF db \in {"insert_err", "ok"} THEN 1 ELSE 0

\* What save_run does to the scoring once the insert has succeeded: "none"
\* (the early return for a judge, a non-participant or a contest that is not
\* running, or a failed Participant::get, completion lookup or upsert),
\* "completion" (the completion row is upserted, completed_at stays NULL) or
\* "notified" (upserted with completed_at set, then process_completion).
SaveEffects(db) ==
    IF db = "ok" THEN {"none", "completion", "notified"} ELSE {"none"}

\* The spawned task, Judging state: pool.get(), JudgeRun::from_job_state,
\* save_run; every error is logged and the task goes on.
TaskPersist ==
    \E j \in JobIds, db \in DbOutcomes :
        /\ mtasks[j].pc = "returned"
        /\ persists(mtasks[j].ret)
        /\ \E eff \in SaveEffects(db) :
              mtasks' = [mtasks EXCEPT ![j].pc = "persisted",
                                      ![j].db = db,
                                      ![j].inserts = @ + InsertsOf(db),
                                      ![j].scored = eff]
        /\ UNCHANGED <<mjobs, mid, mevents, mlast>>

\* A last statement that ends the task and leaves the handle as it is.
TaskRelease_keeps_handle ==
    \E j \in JobIds :
        /\ mtasks[j].pc = "persisted"
        /\ mtasks' = [mtasks EXCEPT ![j].pc = "done"]
        /\ UNCHANGED <<mjobs, mid, mevents, mlast>>

\* A last statement that empties the handle the map holds for the user of
\* the job, whichever job put it there.
TaskRelease_by_user ==
    \E j \in JobIds :
        /\ mtasks[j].pc = "persisted"
        /\ LET k == IF Superseded(j) THEN mjobs[mtasks[j].user] ELSE j IN
             mtasks' = [mtasks EXCEPT ![j].pc = "done", ![k].slot = FALSE,
                                     ![j].late = Superseded(j)]
        /\ UNCHANGED <<mjobs, mid, mevents, mlast>>

\* The spawned task, last statement: handle.lock().await.take() on the Arc
\* the task captured, which is the handle start_job made for this job.
TaskRelease ==
    \E j \in JobIds :
        /\ mtasks[j].pc = "persisted"
        /\ mtasks' = [mtasks EXCEPT ![j].pc = "done", ![j].slot = FALSE,
                                    ![j].late = Superseded(j)]
        /\ UNCHANGED <<mjobs, mid, mevents, mlast>>

MgrNext ==
    \/ RequestJob /\ UNCHANGED restOfMgr
    \/ ShutdownJob /\ UNCHANGED restOfMgr
    \/ Shutdown /\ UNCHANGED restOfMgr
    \/ TaskReturn /\ UNCHANGED restOfMgr
    \/ TaskReleaseTesting /\ UNCHANGED restOfMgr
    \/ TaskPersist /\ UNCHANGED restOfMgr
    \/ TaskRelease /\ UNCHANGED restOfMgr

\* ------------------------------------------------------------------------
\* The service-side Worker (run/worker/service_side.rs)
\* ------------------------------------------------------------------------

\* Commands one Worker executes before it is finished or dropped.
MaxCmds == 2

\* A CaseResult that is Ok(out).
CaseOk(out) == [kind |-> "Ok", data |-> out]

NoResult == [kind |-> "None", data |-> ""]

\* compile() (track_stats false), run_cmd() and run_case() (track_stats true).
CmdKinds == {"compile", "run_cmd", "run_case"}

\* Every command tracked, compile included.
TrackStats_compile_too(kind) == kind \in CmdKinds

TrackStats(kind) == kind # "compile"

\* run_cmd (and run_case through it) writes memory.high before the command;
\* compile does not.
applies_soft_limits(kind) == kind \in {"run_cmd", "run_case"}

NoMsg == [msg |-> "None", out |-> ""]

\* Lines the worker process can print while a command is pending: a
\* CmdComplete with Success or Failure, an InternalError (the process then
\* ends), a line that does not deserialize, a message that is no reply
\* to a command (Ready), or the JSON of one of the variants the service
\* uses internally (Cancelled, TimedOut, CaseError), which deserialize like
\* any other WorkerMessage.
WorkerLines ==
    {[msg |-> "Success", out |-> t] : t \in Texts}
      \cup {[msg |-> "Failure", out |-> "exit 1"],
            [msg |-> "InternalError", out |-> ""],
            [msg |-> "Garbled", out |-> ""],
            [msg |-> "Ready", out |-> ""],
            [msg |-> "Cancelled", out |-> ""],
            [msg |-> "TimedOut", out |-> ""],
            [msg |-> "CaseError", out |-> ""]}

\* WorkerMessage::is_internal.
is_internal(msg) == msg \in {"Cancelled", "TimedOut", "InternalError"}

\* Values of hard_timeout_internal_secs / hard_timeout_user_secs: 0 or the
\* default of the internal timeout, 2 seconds.
TimeoutSecs == {0, 2}

\* A wait_for whose sleep branch is there whatever the timeout is.
timer_armed_always(timeout_secs) == timeout_secs >= 0

\* wait_for: the precondition of the sleep branch of its select,
\* timeout.as_secs() != 0 (the timeouts are made by Duration::from_secs).
timer_armed(timeout_secs) == timeout_secs # 0

\* What reading the cgroup gives: get_stats fails, the CPU delta is over the
\* limit, a memory.high event happened (and memory.peak can or cannot be
\* read), or the deltas are within the limits.
StatOutcomes == {"ok", "cpu", "mem", "peak_err", "stats_err"}

\* What TestCase::check_output gives: Ok(true), Ok(false), Err (bad regex).
CheckOutcomes == {"match", "mismatch", "error"}

\* What happens in run_cmd / _exec_cmd before the select loop.
PreOutcomes == {"ok", "soft_limits_err", "stats_err", "send_err"}

NoCmd == [kind |-> "none", track |-> FALSE, n |-> 0, replied |-> FALSE]

NoInner == [res |-> NoResult, early |-> FALSE]

\* Returned by the ? operator, before the final match of _exec_cmd.
Early(why) == [res |-> Err("Judge", why), early |-> TRUE]

\* The value of the select loop (or of check_stat_diff), handed to the
\* final match of _exec_cmd.
Broke(res) == [res |-> res, early |-> FALSE]

NoObs ==
    [cancelAt |-> 0, cancelRes |-> "None", lateSend |-> FALSE, ready |-> {}, branch |-> "none",
     reply |-> NoMsg, stat |-> "ok", chk |-> "match"]

check_stat_diff_never(st) == CaseOk("")

\* check_stat_diff on the delta that reading the stats gave.
check_stat_diff(st) ==
    CASE st = "cpu" -> Err("CpuTimeExceeded", "usage")
      [] st = "mem" -> Err("MemoryLimitExceeded", "peak")
      [] st = "peak_err" -> Err("Judge", "get_memory_peak")
      [] OTHER -> CaseOk("")

\* wait_for: the branches of its select that are ready when it is polled
\* (the select is not biased: any ready branch may be taken).
ReadyBranches ==
    (IF kpipe # NoMsg THEN {"reply"} ELSE {})
      \cup (IF ktoken THEN {"cancelled"} ELSE {})
      \cup (IF ktimer THEN {"timeout"} ELSE {})

\* What wait_for_new_message makes of a line it has read: an Err for a line
\* that does not deserialize (an empty read at end of file included), for
\* InternalError and for the other internal variants; else the message.
read_message_no_internal_check(line) ==
    CASE line.msg \in {"Garbled", "Eof"} ->
            [msg |-> "None", out |-> "", err |-> "Couldn't deserialize worker message"]
      [] line.msg = "InternalError" ->
            [msg |-> "None", out |-> "", err |-> "Worker internal error"]
      [] OTHER -> [msg |-> line.msg, out |-> line.out, err |-> ""]

read_message(line) ==
    CASE line.msg \in {"Garbled", "Eof"} ->
            [msg |-> "None", out |-> "", err |-> "Couldn't deserialize worker message"]
      [] line.msg = "InternalError" ->
            [msg |-> "None", out |-> "", err |-> "Worker internal error"]
      [] is_internal(line.msg) ->
            [msg |-> "None", out |-> "", err |-> "Unexpected internal message"]
      [] OTHER -> [msg |-> line.msg, out |-> line.out, err |-> ""]

wait_for_new_message_cancel_as_timeout(branch, line) ==
    CASE branch = "cancelled" -> [msg |-> "TimedOut", out |-> "", err |-> ""]
      [] branch = "timeout" -> [msg |-> "TimedOut", out |-> "", err |-> ""]
      [] OTHER -> read_message(line)

\* wait_for_new_message: the message, or the error it bails with (err).
wait_for_new_message(branch, line) ==
    CASE branch = "cancelled" -> [msg |-> "Cancelled", out |-> "", err |-> ""]
      [] branch = "timeout" -> [msg |-> "TimedOut", out |-> "", err |-> ""]
      [] OTHER -> read_message(line)

\* The first branch of the select loop of _exec_cmd: `let msg = res?` and
\* the match on msg; st is what get_stats / check_stat_diff give.
reply_branch(branch, line, track, st) ==
    LET m == wait_for_new_message(branch, line) IN
    IF m.err # "" THEN Early(m.err)
    ELSE CASE m.msg = "Success" ->
                 IF ~track THEN Broke(CaseOk(m.out))
                 ELSE IF st = "stats_err" THEN Early("get_stats")
                 ELSE IF check_stat_diff(st).kind = "Ok" THEN Broke(CaseOk(m.out))
                 ELSE Broke(check_stat_diff(st))
           [] m.msg = "Failure" -> Broke(Err("Runtime", m.out))
           [] m.msg = "Cancelled" -> Broke(Err("Cancelled", ""))
           [] m.msg = "TimedOut" -> Broke(Err("HardTimeLimitExceeded", ""))
           [] OTHER -> Broke(Err("Judge", "Unexpected worker response"))

\* The second branch of the select loop: the 100 ms poll of the stats.
poll_branch(st) ==
    IF st = "stats_err" THEN Broke(Err("Judge", "get_stats"))
    ELSE Broke(check_stat_diff(st))

\* The final match of _exec_cmd calls shutdown.cancel().
cancels_token(r) == ~r.early /\ r.res.kind # "Ok" /\ should_kill_worker(r.res)

\* exec_cmd calls kill_child().
kills_child(r) == r.res.kind # "Ok" /\ should_kill_worker(r.res)

\* kill_child: kill_sub_child (sub_child_pid is Some after init; ESRCH is
\* tolerated), child.kill() if child.id() is Some, child.wait().
kill_child_steps ==
    <<"kill_sub">> \o (IF kchild # "reaped" THEN <<"kill">> ELSE <<>>) \o <<"wait">>

\* What compile / run_cmd / run_case make of exec_cmd's result.
command_result(kind, res, chk) ==
    CASE kind = "compile" ->
            IF res.kind = "Runtime" THEN Err("Compilation", res.data)
            ELSE IF res.kind = "Ok" THEN CaseOk("")
            ELSE res
      [] kind = "run_case" /\ res.kind = "Ok" ->
            CASE chk = "match" -> res
              [] chk = "mismatch" -> Err("Logic", "")
              [] OTHER -> Err("Judge", "check_output")
      [] OTHER -> res

\* The caller of the Worker runs the next command only after a command
\* that succeeded: a failed compile or case ends the run.
run_job_continues(res) == res.kind \in {"None", "Ok"}

\* Worker::new has returned Ok: the child runs, init has stored the
\* grandchild's PID, no command has been executed.
WkInit ==
    /\ kpc = "ready"
    /\ ktoken = FALSE
    /\ kchild = "alive"
    /\ ksub = "alive"
    /\ kpipe = NoMsg
    /\ ktimer = FALSE
    /\ kcmd = NoCmd
    /\ kinner = NoInner
    /\ kres = NoResult
    /\ klog = <<>>
    /\ kobs = NoObs
    /\ kdirs = [tmp |-> TRUE, cgroup |-> TRUE]
    /\ khigh = "max"
    /\ ktimeout \in TimeoutSecs

\* The job's token is cancelled from outside (shutdown_job, shutdown).
CancelToken ==
    /\ kpc # "released"
    /\ ~ktoken
    /\ ktoken' = TRUE
    /\ kobs' = IF kpc = "awaiting" THEN [kobs EXCEPT !.cancelAt = kcmd.n] ELSE kobs
    /\ UNCHANGED <<kpc, kchild, ksub, kpipe, ktimer, kcmd, kinner, kres, klog>>

\* The worker process ends by itself (the PID-1 grandchild dies, the direct
\* child, which waits for it, exits): a pending read_line sees end of file.
WorkerProcessEnds ==
    /\ kpc \in {"ready", "awaiting"}
    /\ kchild = "alive"
    /\ kchild' = "exited"
    /\ ksub' = "dead"
    /\ kpipe' = IF kpc = "awaiting" /\ kpipe = NoMsg
                THEN [msg |-> "Eof", out |-> ""]
                ELSE kpipe
    /\ UNCHANGED <<kpc, ktoken, ktimer, kcmd, kinner, kres, klog, kobs>>

\* compile() / run_cmd() / run_case() up to the select loop of _exec_cmd:
\* apply_soft_limits (run commands), update_stats (track_stats),
\* send_message(RunCmd).
ExecCmd ==
    /\ kpc = "ready"
    /\ kcmd.n < MaxCmds
    /\ run_job_continues(kres)
    /\ \E kind \in CmdKinds, pre \in PreOutcomes :
          /\ pre = "soft_limits_err" => kind # "compile"
          /\ pre = "stats_err" => TrackStats(kind)
          /\ pre = "ok" => kchild = "alive"
          /\ pre = "send_err" => kchild # "alive"
          /\ kcmd' = [kind |-> kind, track |-> TrackStats(kind),
                      n |-> kcmd.n + 1, replied |-> FALSE]
          /\ kobs' = [NoObs EXCEPT
                        !.cancelAt = kobs.cancelAt,
                        !.cancelRes = kobs.cancelRes,
                        !.lateSend = kobs.lateSend \/ (pre = "ok" /\ kobs.cancelAt > 0)]
          /\ ktimer' = FALSE
          /\ kres' = IF pre = "soft_limits_err"
                     THEN Err("Judge", "apply_soft_limits") ELSE NoResult
          /\ kinner' = CASE pre = "stats_err" -> Early("update_stats")
                         [] pre = "send_err" -> Early("send_message")
                         [] OTHER -> NoInner
          /\ klog' = CASE pre = "soft_limits_err" -> <<"return">>
                       [] pre = "ok" -> <<"RunCmd">>
                       [] OTHER -> <<>>
          /\ kpc' = CASE pre = "soft_limits_err" -> "ready"
                      [] pre = "ok" -> "awaiting"
                      [] OTHER -> "inner_done"
          /\ khigh' = IF applies_soft_limits(kind) /\ pre # "soft_limits_err"
                      THEN "ceiling" ELSE khigh
    /\ UNCHANGED <<ktoken, kchild, ksub, kpipe>>

\* The worker process prints its line for the pending command; after an
\* InternalError it ends.
WorkerReply ==
    /\ kpc = "awaiting"
    /\ kchild = "alive"
    /\ ~kcmd.replied
    /\ kpipe = NoMsg
    /\ \E line \in WorkerLines :
          /\ kpipe' = line
          /\ kchild' = IF line.msg = "InternalError" THEN "exited" ELSE kchild
          /\ ksub' = IF line.msg = "InternalError" THEN "dead" ELSE ksub
    /\ kcmd' = [kcmd EXCEPT !.replied = TRUE]
    /\ UNCHANGED <<kpc, ktoken, ktimer, kinner, kres, klog, kobs>>

\* The sleep(timeout_user) of wait_for elapses.
HardTimeout ==
    /\ kpc = "awaiting"
    /\ timer_armed(ktimeout)
    /\ ~ktimer
    /\ ktimer' = TRUE
    /\ UNCHANGED <<kpc, ktoken, kchild, ksub, kpipe, kcmd, kinner, kres, klog, kobs>>

\* _exec_cmd, first branch of the select loop: wait_for_new_message is
\* ready, its message is matched, the final match cancels the token for an
\* error that must kill the worker.  After an InternalError
\* wait_for_new_message has waited for (or killed) the child.
WaitFor ==
    /\ kpc = "awaiting"
    /\ ReadyBranches # {}
    /\ \E b \in ReadyBranches, st \in StatOutcomes :
          LET r == reply_branch(b, kpipe, kcmd.track, st)
              read == b = "reply" /\ kpipe.msg = "Success" /\ kcmd.track
              internal == b = "reply" /\ kpipe.msg = "InternalError"
          IN
          /\ ~read => st = "ok"
          /\ kinner' = r
          /\ ktoken' = (ktoken \/ cancels_token(r))
          /\ klog' = klog \o (IF internal THEN <<"wait">> ELSE <<>>)
                          \o (IF cancels_token(r) THEN <<"cancel">> ELSE <<>>)
          /\ kpipe' = IF b = "reply" THEN NoMsg ELSE kpipe
          /\ kchild' = IF internal THEN "reaped" ELSE kchild
          /\ ksub' = IF internal THEN "dead" ELSE ksub
          /\ kobs' = [kobs EXCEPT !.ready = ReadyBranches, !.branch = b,
                                  !.reply = IF b = "reply" THEN kpipe ELSE NoMsg,
                                  !.stat = st]
    /\ kpc' = "inner_done"
    /\ UNCHANGED <<ktimer, kcmd, kres>>

\* _exec_cmd, second branch of the select loop (biased: taken only while
\* the first is pending): the stats are read and checked; within the limits
\* the loop goes on.
StatPoll ==
    /\ kpc = "awaiting"
    /\ kcmd.track
    /\ ReadyBranches = {}
    /\ \E st \in StatOutcomes :
          LET r == poll_branch(st) IN
          IF r.res.kind = "Ok"
          THEN UNCHANGED wkVars
          ELSE /\ kinner' = r
               /\ ktoken' = (ktoken \/ cancels_token(r))
               /\ klog' = klog \o (IF cancels_token(r) THEN <<"cancel">> ELSE <<>>)
               /\ kobs' = [kobs EXCEPT !.branch = "poll", !.stat = st]
               /\ kpc' = "inner_done"
               /\ UNCHANGED <<kchild, ksub, kpipe, ktimer, kcmd, kres>>

\* exec_cmd after _exec_cmd: kill_child for an error that must kill the
\* worker; then what compile / run_cmd / run_case make of the result
\* (run_case asks check_output about an Ok output).
ExecCmdReturn ==
    /\ kpc = "inner_done"
    /\ \E chk \in CheckOutcomes :
          LET res == command_result(kcmd.kind, kinner.res, chk)
              asked == kcmd.kind = "run_case" /\ kinner.res.kind = "Ok"
          IN
          /\ ~asked => chk = "match"
          /\ kres' = res
          /\ kobs' = [kobs EXCEPT !.chk = chk,
                                  !.cancelRes = IF kobs.cancelAt = kcmd.n
                                                THEN res.kind ELSE @]
    /\ klog' = klog \o (IF kills_child(kinner) THEN kill_child_steps ELSE <<>>)
                    \o <<"return">>
    /\ kchild' = IF kills_child(kinner) THEN "reaped" ELSE kchild
    /\ ksub' = IF kills_child(kinner) THEN "dead" ELSE ksub
    /\ kpc' = "ready"
    /\ UNCHANGED <<ktoken, kpipe, ktimer, kcmd, kinner>>

\* CGroup::SHUTDOWN_GIVE_UP_COUNT.
SHUTDOWN_GIVE_UP_COUNT == 4

\* How many rmdir attempts in a row find the cgroup still populated.
RmdirFailures == 0..(SHUTDOWN_GIVE_UP_COUNT + 1)

\* CGroup::shutdown_sync: TRUE iff the directory has been removed.  rmdir is
\* retried; after each failure but the last cgroup.kill is written, and a
\* failed write ends the attempt.
shutdown_sync(busy, killok) ==
    \/ busy = 0
    \/ killok /\ busy <= SHUTDOWN_GIVE_UP_COUNT

\* What shutdown_sync can give, over the populations of the cgroup and the
\* outcomes of the write.
ShutdownResults == {shutdown_sync(b, k) : b \in RmdirFailures, k \in BOOLEAN}

\* Drop for Worker, then the drop of its fields: the temp directory is
\* removed if it exists (an error is logged: entries can appear while a
\* process of the cgroup still runs, or be out of the service's reach);
\* kill_child_sync kills the grandchild, kills and awaits a child that was
\* not awaited, and shuts the cgroup down; Drop for CGroup (ephemeral)
\* shuts it down again if it still exists.  SIGKILL to the Worker's own
\* processes does not fail (ESRCH is tolerated by the code).
drop_log(dirs, child, rm_ok, gone1, gone2) ==
    (IF dirs.tmp THEN <<IF rm_ok THEN "rm_tmp" ELSE "rm_tmp_err">> ELSE <<>>)
      \o <<"kill_sub">>
      \o (IF child # "reaped" THEN <<"kill", "wait">> ELSE <<>>)
      \o (IF dirs.cgroup THEN <<IF gone1 THEN "rm_cgroup" ELSE "rm_cgroup_err">> ELSE <<>>)
      \o <<"drop">>
      \o (IF dirs.cgroup /\ ~gone1
          THEN <<IF gone2 THEN "rm_cgroup" ELSE "rm_cgroup_err">> ELSE <<>>)

drop_dirs(dirs, rm_ok, gone1, gone2) ==
    [tmp |-> dirs.tmp /\ ~rm_ok, cgroup |-> dirs.cgroup /\ ~gone1 /\ ~gone2]

\* finish(): nothing if the child has been waited for; Stop, and kill_child
\* if it cannot be sent; else wait_child, which either sees the child exit
\* or, on cancellation or the internal timeout, kills it.  The Worker is
\* then dropped.
Finish ==
    /\ kpc = "ready"
    /\ \E how \in {"stopped", "killed"}, rm_ok \in BOOLEAN, gone1, gone2 \in ShutdownResults :
          /\ kchild # "alive" => how = "killed"
          /\ klog' = <<"finish">>
                      \o (CASE kchild = "reaped" -> <<>>
                            [] kchild = "exited" -> <<"Stop">> \o kill_child_steps
                            [] how = "killed" -> <<"Stop">> \o kill_child_steps
                            [] OTHER -> <<"Stop", "wait">>)
                      \o drop_log(kdirs, "reaped", rm_ok, gone1, gone2)
          /\ kdirs' = drop_dirs(kdirs, rm_ok, gone1, gone2)
    /\ kchild' = "reaped"
    /\ ksub' = "dead"
    /\ kpc' = "released"
    /\ UNCHANGED <<ktoken, kpipe, ktimer, kcmd, kinner, kres, kobs>>

\* The Worker is dropped without finish().
Drop ==
    /\ kpc = "ready"
    /\ \E rm_ok \in BOOLEAN, gone1, gone2 \in ShutdownResults :
          /\ klog' = drop_log(kdirs, kchild, rm_ok, gone1, gone2)
          /\ kdirs' = drop_dirs(kdirs, rm_ok, gone1, gone2)
    /\ kchild' = "reaped"
    /\ ksub' = "dead"
    /\ kpc' = "released"
    /\ UNCHANGED <<ktoken, kpipe, ktimer, kcmd, kinner, kres, kobs>>

WkNext ==
    \/ CancelToken /\ UNCHANGED <<kdirs, khigh, ktimeout>> /\ UNCHANGED restOfWk
    \/ WorkerProcessEnds /\ UNCHANGED <<kdirs, khigh, ktimeout>> /\ UNCHANGED restOfWk
    \/ ExecCmd /\ UNCHANGED <<kdirs, ktimeout>> /\ UNCHANGED restOfWk
    \/ WorkerReply /\ UNCHANGED <<kdirs, khigh, ktimeout>> /\ UNCHANGED restOfWk
    \/ HardTimeout /\ UNCHANGED <<kdirs, khigh, ktimeout>> /\ UNCHANGED restOfWk
    \/ WaitFor /\ UNCHANGED <<kdirs, khigh, ktimeout>> /\ UNCHANGED restOfWk
    \/ StatPoll /\ UNCHANGED <<kdirs, khigh, ktimeout>> /\ UNCHANGED restOfWk
    \/ ExecCmdReturn /\ UNCHANGED <<kdirs, khigh, ktimeout>> /\ UNCHANGED restOfWk
    \/ Finish /\ UNCHANGED <<khigh, ktimeout>> /\ UNCHANGED restOfWk
    \/ Drop /\ UNCHANGED <<khigh, ktimeout>> /\ UNCHANGED restOfWk

\* Idle Worker: one that has been released.
WkIdle ==
    /\ kpc = "released"
    /\ ktoken = FALSE
    /\ kchild = "reaped"
    /\ ksub = "dead"
    /\ kpipe = NoMsg
    /\ ktimer = FALSE
    /\ kcmd = NoCmd
    /\ kinner = NoInner
    /\ kres = NoResult
    /\ klog = <<>>
    /\ kobs = NoObs
    /\ kdirs = [tmp |-> FALSE, cgroup |-> FALSE]
    /\ khigh = "max"
    /\ ktimeout = 0

\* ------------------------------------------------------------------------
\* The worker process (run/worker/worker_side.rs, run/worker/isolation) and
\* the handshake of Worker::new / init (run/worker/service_side.rs)
\* ------------------------------------------------------------------------

\* Lines the service writes to a worker after Worker::new has returned.
MaxSent == 3

Line(t, id) == [t |-> t, id |-> id]

IsolationSteps_chroot_early ==
    <<"unshare", "wait_for_id_mapping", "su_root", "chroot", "mount_root",
      "setup_environment", "setup_environment_post_chroot", "su_runner",
      "harden_process", "install_filters">>

\* isolate(): the calls it makes, in order.
IsolationSteps ==
    <<"unshare", "wait_for_id_mapping", "su_root", "mount_root",
      "setup_environment", "chroot", "setup_environment_post_chroot",
      "su_runner", "harden_process", "install_filters">>

\* What main returns after run_from_child, as an exit status: Ok(()) in
\* every case, also after run_from_child has sent InternalError.
main_exit_status(res) == "0"

NotExited == [child |-> "none", sub |-> "unborn", why |-> "none"]

NoEnv == [cancel |-> FALSE, timer |-> FALSE, mapped |-> "none", sent |-> 0, secs |-> 0]

\* The service has spawned the worker process and is in Worker::new, about
\* to call init.
ProcInit ==
    /\ ppc = "await_init"
    /\ pdone = <<>>
    /\ pin = <<>>
    /\ pread = 0
    /\ pout = <<>>
    /\ sread = 0
    /\ pexit = NotExited
    /\ pcmds = <<>>
    /\ spc = "start"
    /\ senv \in {[NoEnv EXCEPT !.secs = t] : t \in TimeoutSecs}

\* Idle worker process: none is running and Worker::new has returned Err.
ProcIdle ==
    /\ ppc = "exited"
    /\ pdone = <<>>
    /\ pin = <<>>
    /\ pread = 0
    /\ pout = <<>>
    /\ sread = 0
    /\ pexit = NotExited
    /\ pcmds = <<>>
    /\ spc = "failed"
    /\ senv = NoEnv

Unread == pread < Len(pin)

NextIn == pin[pread + 1]

\* run_from_child when _run_from_child returned Err: InternalError is sent
\* and main returns.  Before the fork the process is the direct child;
\* after it, it is the grandchild, and the direct child, which waits for it
\* in fork_to_child, then exits with status 0.
Abort ==
    /\ pout' = Append(pout, Line("InternalError", 0))
    /\ ppc' = "exited"
    /\ pexit' = IF pexit.sub = "unborn"
                THEN [child |-> main_exit_status("Err"), sub |-> "unborn", why |-> "error"]
                ELSE [child |-> "0", sub |-> main_exit_status("Err"), why |-> "error"]

\* _run_from_child, first statement: wait_for_msg!(InitialInfo).
ProcAwaitInit ==
    /\ ppc = "await_init"
    /\ Unread
    /\ pread' = pread + 1
    /\ IF NextIn.t = "InitialInfo"
       THEN /\ ppc' = "isolate"
            /\ UNCHANGED <<pout, pexit>>
       ELSE Abort
    /\ UNCHANGED <<pdone, pin, sread, pcmds, spc, senv>>

\* isolate, first step: unshare() = setup_namespaces and fork_to_child; the
\* direct child sends RequestUidGidMap and waits for the grandchild, which
\* goes on.
ProcUnshare ==
    /\ ppc = "isolate"
    /\ pdone = <<>>
    /\ \E ok \in BOOLEAN :
          IF ok
          THEN /\ pdone' = <<IsolationSteps[1]>>
               /\ pout' = Append(pout, Line("RequestUidGidMap", 0))
               /\ pexit' = [pexit EXCEPT !.sub = "none"]
               /\ UNCHANGED ppc
          ELSE Abort /\ UNCHANGED pdone
    /\ UNCHANGED <<pin, pread, sread, pcmds, spc, senv>>

\* isolate, second step: wait_for_id_mapping reads one line; anything but
\* UidGidMapResult(true) is an error, and so is an unreadable map file.
ProcWaitIdMapping ==
    /\ ppc = "isolate"
    /\ Len(pdone) = 1
    /\ Unread
    /\ pread' = pread + 1
    /\ \E ok \in BOOLEAN :
          IF ok /\ NextIn.t = "UidGidMapResult_true"
          THEN /\ pdone' = Append(pdone, IsolationSteps[2])
               /\ UNCHANGED <<ppc, pout, pexit>>
          ELSE Abort /\ UNCHANGED pdone
    /\ UNCHANGED <<pin, sread, pcmds, spc, senv>>

\* isolate, the steps after wait_for_id_mapping, each of which can fail.
ProcIsolateStep ==
    /\ ppc = "isolate"
    /\ Len(pdone) >= 2
    /\ \E ok \in BOOLEAN :
          IF ok
          THEN /\ pdone' = Append(pdone, IsolationSteps[Len(pdone) + 1])
               /\ ppc' = IF Len(pdone) + 1 = Len(IsolationSteps)
                         THEN "write_program" ELSE "isolate"
               /\ UNCHANGED <<pout, pexit>>
          ELSE Abort /\ UNCHANGED pdone
    /\ UNCHANGED <<pin, pread, sread, pcmds, spc, senv>>

\* _run_from_child after isolate: the program is written, Ready is sent.
ProcWriteProgram ==
    /\ ppc = "write_program"
    /\ \E ok \in BOOLEAN :
          IF ok
          THEN /\ pout' = Append(pout, Line("Ready", 0))
               /\ ppc' = "loop"
               /\ UNCHANGED pexit
          ELSE Abort
    /\ UNCHANGED <<pdone, pin, pread, sread, pcmds, spc, senv>>

\* What the command loop does with one line read by ServiceMessage::wait_for:
\* a line that is not a ServiceMessage ("Garbled"), like a read error, is an
\* Err that `?` propagates; the match arm `_` only meets InitialInfo and
\* UidGidMapResult.
loop_arm(line) ==
    CASE line.t = "RunCmd" -> "run_cmd"
      [] line.t = "Stop" -> "break"
      [] line.t = "Garbled" -> "err"
      [] OTHER -> "warn"

\* _run_from_child, one turn of the loop up to the spawn in run_cmd.
ProcLoopRead ==
    /\ ppc = "loop"
    /\ Unread
    /\ pread' = pread + 1
    /\ CASE loop_arm(NextIn) = "run_cmd" ->
              /\ pcmds' = Append(pcmds, NextIn.id)
              /\ \E spawned \in BOOLEAN :
                    IF spawned
                    THEN ppc' = "running" /\ UNCHANGED <<pout, pexit>>
                    ELSE Abort
         [] loop_arm(NextIn) = "break" ->
              /\ ppc' = "exited"
              /\ pexit' = [child |-> "0", sub |-> main_exit_status("Ok"), why |-> "stop"]
              /\ UNCHANGED <<pout, pcmds>>
         [] loop_arm(NextIn) = "err" ->
              Abort /\ UNCHANGED pcmds
         [] OTHER ->
              UNCHANGED <<ppc, pout, pexit, pcmds>>
    /\ UNCHANGED <<pdone, pin, sread, spc, senv>>

CmdEnds == {"Success", "Failure", "io_err"}

cmd_reply_none(r, id) == <<>>

\* run_cmd, last statement: CmdComplete(output.into()) is sent, Success or
\* Failure by the exit status.
cmd_reply(r, id) == <<Line("CmdComplete", id)>>

\* run_cmd after the spawn: stdin is written, the output awaited and
\* CmdComplete sent; an error of either step leaves by `?`.
ProcCmdComplete ==
    /\ ppc = "running"
    /\ \E r \in CmdEnds :
          IF r = "io_err"
          THEN Abort
          ELSE /\ pout' = pout \o cmd_reply(r, pcmds[Len(pcmds)])
               /\ ppc' = "loop"
               /\ UNCHANGED pexit
    /\ UNCHANGED <<pdone, pin, pread, sread, pcmds, spc, senv>>

\* Worker::finish as Worker::new calls it when init failed: Stop is sent
\* while the child has not been reaped.
StopIfAlive(reaped) ==
    IF reaped THEN <<>> ELSE <<Line("Stop", 0)>>

\* Worker::init: InitialInfo is sent.
SvcSendInitialInfo ==
    /\ spc = "start"
    /\ pin' = Append(pin, Line("InitialInfo", 0))
    /\ spc' = "await_request"
    /\ UNCHANGED <<ppc, pdone, pread, pout, sread, pexit, pcmds, senv>>

\* The branches of wait_for that are ready while init awaits a message.
InitBranches ==
    (IF sread < Len(pout) THEN {"reply"} ELSE {})
        \cup (IF senv.cancel THEN {"cancelled"} ELSE {})
        \cup (IF senv.timer THEN {"timeout"} ELSE {})

\* The line wait_for_new_message would read next from the worker's stdout.
NextOut == IF sread < Len(pout) THEN pout[sread + 1] ELSE Line("none", 0)

init_accepts_any_reply(stage, branch, line) == branch = "reply"

\* Worker::init: the `if let` of each wait.  A cancelled or timed-out wait
\* yields WorkerMessage::Cancelled / TimedOut, and InternalError is an Err of
\* wait_for_new_message: none of them matches.
init_accepts(stage, branch, line) ==
    /\ branch = "reply"
    /\ line.t = (IF stage = "await_request" THEN "RequestUidGidMap" ELSE "Ready")

\* Worker::init, first wait: RequestUidGidMap makes the service run
\* map_uid_gid and answer UidGidMapResult(ok); anything else, a
\* cancellation and a timeout included, fails init.
SvcAwaitRequest ==
    /\ spc = "await_request"
    /\ \E b \in InitBranches :
          IF init_accepts("await_request", b, NextOut)
          THEN \E ok \in BOOLEAN :
                  /\ sread' = sread + 1
                  /\ senv' = [senv EXCEPT !.mapped = IF ok THEN "true" ELSE "false",
                                          !.timer = FALSE]
                  /\ pin' = pin \o <<Line(IF ok THEN "UidGidMapResult_true"
                                          ELSE "UidGidMapResult_false", 0)>>
                                \o (IF ok THEN <<>> ELSE StopIfAlive(FALSE))
                  /\ spc' = IF ok THEN "await_ready" ELSE "failed"
          ELSE /\ sread' = IF b = "reply" THEN sread + 1 ELSE sread
               /\ pin' = pin \o StopIfAlive(b = "reply" /\ NextOut.t = "InternalError")
               /\ spc' = "failed"
               /\ UNCHANGED senv
    /\ UNCHANGED <<ppc, pdone, pread, pout, pexit, pcmds>>

\* Worker::init, second wait: only Ready makes Worker::new return a worker.
SvcAwaitReady ==
    /\ spc = "await_ready"
    /\ \E b \in InitBranches :
          /\ sread' = IF b = "reply" THEN sread + 1 ELSE sread
          /\ IF init_accepts("await_ready", b, NextOut)
             THEN spc' = "ready" /\ UNCHANGED pin
             ELSE /\ spc' = "failed"
                  /\ pin' = pin \o StopIfAlive(b = "reply" /\ NextOut.t = "InternalError")
    /\ UNCHANGED <<ppc, pdone, pread, pout, pexit, pcmds, senv>>

\* The shutdown token is cancelled while init awaits the worker.
SvcCancel ==
    /\ spc \in {"await_request", "await_ready"}
    /\ ~senv.cancel
    /\ senv' = [senv EXCEPT !.cancel = TRUE]
    /\ UNCHANGED <<ppc, pdone, pin, pread, pout, sread, pexit, pcmds, spc>>

\* The internal timeout of the current wait of init elapses.
SvcTimeout ==
    /\ spc \in {"await_request", "await_ready"}
    /\ timer_armed(senv.secs)
    /\ ~senv.timer
    /\ senv' = [senv EXCEPT !.timer = TRUE]
    /\ UNCHANGED <<ppc, pdone, pin, pread, pout, sread, pexit, pcmds, spc>>

\* finish -> wait_child -> kill_child of a worker whose init failed and
\* that did not exit in time: grandchild and child are killed.
SvcKill ==
    /\ spc = "failed"
    /\ ppc # "exited"
    /\ ppc' = "exited"
    /\ pexit' = [child |-> "killed",
                 sub |-> IF pexit.sub = "unborn" THEN "unborn" ELSE "killed",
                 why |-> "killed"]
    /\ UNCHANGED <<pdone, pin, pread, pout, sread, pcmds, spc, senv>>

SentKinds == {"RunCmd", "Stop", "InitialInfo", "UidGidMapResult_true", "Garbled"}

Stopped == \E i \in 1..Len(pin) : pin[i].t = "Stop"

\* send_message on a worker that Worker::new returned: RunCmd from
\* _exec_cmd, Stop from finish; the other kinds stand for whatever else
\* reaches the worker's stdin.  Nothing is written after Stop.
SvcSend ==
    /\ spc = "ready"
    /\ senv.sent < MaxSent
    /\ ~Stopped
    /\ \E t \in SentKinds :
          pin' = Append(pin, Line(t, senv.sent + 1))
    /\ senv' = [senv EXCEPT !.sent = senv.sent + 1]
    /\ UNCHANGED <<ppc, pdone, pread, pout, sread, pexit, pcmds, spc>>

ProcNext ==
    \/ SvcSendInitialInfo /\ UNCHANGED restOfProc
    \/ SvcAwaitRequest /\ UNCHANGED restOfProc
    \/ SvcAwaitReady /\ UNCHANGED restOfProc
    \/ SvcCancel /\ UNCHANGED restOfProc
    \/ SvcTimeout /\ UNCHANGED restOfProc
    \/ SvcKill /\ UNCHANGED restOfProc
    \/ SvcSend /\ UNCHANGED restOfProc
    \/ ProcAwaitInit /\ UNCHANGED restOfProc
    \/ ProcUnshare /\ UNCHANGED restOfProc
    \/ ProcWaitIdMapping /\ UNCHANGED restOfProc
    \/ ProcIsolateStep /\ UNCHANGED restOfProc
    \/ ProcWriteProgram /\ UNCHANGED restOfProc
    \/ ProcLoopRead /\ UNCHANGED restOfProc
    \/ ProcCmdComplete /\ UNCHANGED restOfProc

\* ------------------------------------------------------------------------
\* RunManager::save_run (run/manager.rs) and ProblemCompletion
\* (problems/completions.rs)
\* ------------------------------------------------------------------------

\* save_run calls made for the participant and the problem.
MaxRuns == 3

\* The Judging state of n cases of which the first k passed: the next one,
\* if any, failed with the given penalty flag and the rest was not run.
FinalJudging(n, k, penalty) ==
    [type |-> "Judging",
     cases |-> [i \in 1..n |->
                  IF i <= k THEN Passed("out_a")
                  ELSE IF i = k + 1 THEN Failed(penalty, "Logic Error")
                  ELSE NotRun],
     complete |-> TRUE,
     status |-> Pending]

\* The final Judging states save_run is called for.
FinalStates ==
    {FinalJudging(n, k, pen) : n \in 1..MaxCases, k \in 0..MaxCases, pen \in BOOLEAN}

\* Participant::get: no row, a judge, a contestant.
Participants == {"none", "judge", "contestant"}

\* Where save_run fails: Contest::get, write_to_db, Participant::get,
\* get_for_problem_and_participant, upsert; or nowhere.
SaveOutcomes ==
    {"contest_err", "insert_err", "participant_err", "get_err", "upsert_err", "ok"}

NoCompletion == [exists |-> FALSE, completed_at |-> 0, number_wrong |-> 0, upserts |-> 0]

\* ProblemCompletion::temp.
temp(upserts, completed_at) ==
    [exists |-> FALSE, completed_at |-> completed_at, number_wrong |-> 0, upserts |-> upserts]

\* save_run returns before it reads the completion.
returns_early(part, running) == part # "contestant" \/ ~running

update_completion_counts_always(c, ok, penalty_applies, ran_at) ==
    IF ok /\ c.completed_at = 0
    THEN [c EXCEPT !.completed_at = ran_at]
    ELSE IF penalty_applies
         THEN [c EXCEPT !.number_wrong = @ + 1]
         ELSE c

\* save_run, the if / else if on the completion it has read or made.
update_completion(c, ok, penalty_applies, ran_at) ==
    IF ok /\ c.completed_at = 0
    THEN [c EXCEPT !.completed_at = ran_at]
    ELSE IF penalty_applies /\ c.completed_at = 0
         THEN [c EXCEPT !.number_wrong = @ + 1]
         ELSE c

\* save_run: the problem_completion row it leaves.
save_run(c, state, ran_at, part, running, db) ==
    LET run == from_job_state(state, ran_at)
        got == IF c.exists THEN c
               ELSE temp(c.upserts, IF success(run) THEN ran_at ELSE 0)
        new == update_completion(got, success(run), last_error(state).penalty, ran_at)
    IN
    IF db \in {"contest_err", "insert_err", "participant_err"} THEN c
    ELSE IF returns_early(part, running) THEN c
    ELSE IF db \in {"get_err", "upsert_err"} THEN c
    ELSE [new EXCEPT !.exists = TRUE, !.upserts = c.upserts + 1]

\* save_run returns Ok(()).
save_run_ok(part, running, db) ==
    \/ db = "ok"
    \/ returns_early(part, running) /\ db \in {"get_err", "upsert_err"}

SaveInit ==
    /\ vcompl = NoCompletion
    /\ vruns = <<>>

\* The spawned task calls save_run for the final state of a Judging job;
\* ran_at grows from run to run.
SaveRun ==
    /\ Len(vruns) < MaxRuns
    /\ \E state \in FinalStates, part \in Participants, running \in BOOLEAN,
          db \in SaveOutcomes :
          LET ran_at == Len(vruns) + 1 IN
          /\ returns_early(part, running) => db \notin {"get_err", "upsert_err"}
          /\ vcompl' = save_run(vcompl, state, ran_at, part, running, db)
          /\ vruns' = Append(vruns,
                [ran_at |-> ran_at,
                 success |-> success(from_job_state(state, ran_at)),
                 penalty |-> last_error(state).penalty,
                 eligible |-> ~returns_early(part, running),
                 ok |-> save_run_ok(part, running, db)])

SaveNext ==
    \/ SaveRun /\ UNCHANGED restOfSave

\* ------------------------------------------------------------------------
\* CGroupStats and the stat checks of a tracked command
\* (run/worker/isolation/cgroup.rs, run/worker/service_side.rs)
\* ------------------------------------------------------------------------

\* Largest CPU ceiling of a problem, in seconds.
MaxCpuSeconds == 2

\* Microseconds per second: the factor of check_stat_diff.
USEC_PER_SEC == 1000000

CGroupStats(breaks, usec) == [high_memory_breaks |-> breaks, cpu_usage_usec |-> usec]

\* impl Sub for CGroupStats.
StatsSub(a, b) ==
    CGroupStats(a.high_memory_breaks - b.high_memory_breaks,
                a.cpu_usage_usec - b.cpu_usage_usec)

\* A CPU check that lets a delta pass until it is more than a tick over.
check_broke_cpu_time_slack(st, limit) == st.cpu_usage_usec > limit + 1

check_broke_cpu_time(st, limit) == st.cpu_usage_usec >= limit

check_broke_memory_limit(st) == st.high_memory_breaks > 0

NoStatResult == [kind |-> "None", usage |-> 0]

NoStatRead == [at |-> "none", diff |-> CGroupStats(0, 0)]

\* Tracked commands one Worker runs.
MaxTracked == 2

\* An update_stats that reads the counters and keeps the old last_stat.
update_stats_keeps_last(last_stat, new_stat) == last_stat

\* update_stats: the CGroupStats it stores in self.last_stat.
update_stats(last_stat, new_stat) == new_stat

\* check_stat_diff(diff, cgroup, cpu_limit_seconds); peak is what
\* get_memory_peak gives (-1: it fails).
check_stat_diff_usec(diff, peak, cpu_limit_seconds) ==
    IF check_broke_cpu_time(diff, cpu_limit_seconds * USEC_PER_SEC)
    THEN [kind |-> "CpuTimeExceeded", usage |-> diff.cpu_usage_usec]
    ELSE IF check_broke_memory_limit(diff)
         THEN IF peak < 0 THEN [kind |-> "Judge", usage |-> 0]
              ELSE [kind |-> "MemoryLimitExceeded", usage |-> peak]
         ELSE [kind |-> "Ok", usage |-> 0]

\* CPU deltas around the ceiling of limit seconds.
NearCeiling(limit) ==
    {limit * USEC_PER_SEC - 1, limit * USEC_PER_SEC, limit * USEC_PER_SEC + 1}

\* memory.peak readings: a failed read or a value.
PeakReads == {-1, 7}

\* _exec_cmd of a run command has called update_stats and sent RunCmd: the
\* counters of the cgroup are those stored as base_stats.
StatInit ==
    /\ tlimit \in 1..MaxCpuSeconds
    /\ tbase \in {CGroupStats(b, u) : b \in {0, 1}, u \in {0, 5}}
    /\ tcg = tbase
    /\ tpc = "awaiting"
    /\ tres = NoStatResult
    /\ tobs = NoStatRead
    /\ tcmd = [n |-> 1, sent |-> tbase, idle |-> FALSE]

StatIdle ==
    /\ tlimit = 1
    /\ tbase = CGroupStats(0, 0)
    /\ tcg = tbase
    /\ tpc = "done"
    /\ tres = NoStatResult
    /\ tobs = NoStatRead
    /\ tcmd = [n |-> 1, sent |-> CGroupStats(0, 0), idle |-> FALSE]

\* The processes of the cgroup use CPU: user_usec grows.
CpuUsed ==
    /\ tpc = "awaiting"
    /\ \E d \in NearCeiling(tlimit) :
          /\ tbase.cpu_usage_usec + d > tcg.cpu_usage_usec
          /\ tcg' = [tcg EXCEPT !.cpu_usage_usec = tbase.cpu_usage_usec + d]
    /\ UNCHANGED <<tlimit, tbase, tpc, tres, tobs>>

\* The cgroup goes over memory.high: the "high" event count grows.
MemoryHigh ==
    /\ tpc = "awaiting"
    /\ tcg.high_memory_breaks = tbase.high_memory_breaks
    /\ tcg' = [tcg EXCEPT !.high_memory_breaks = @ + 1]
    /\ UNCHANGED <<tlimit, tbase, tpc, tres, tobs>>

\* Second branch of the select loop, every 100 ms: get_stats, the delta to
\* base_stats, check_stat_diff; an error of either ends the loop.
PollTick ==
    /\ tpc = "awaiting"
    /\ \E read_ok \in BOOLEAN, peak \in PeakReads :
          LET diff == StatsSub(tcg, tbase)
              chk == check_stat_diff_usec(diff, peak, tlimit)
          IN
          IF ~read_ok
          THEN /\ peak = 7
               /\ tres' = [kind |-> "Judge", usage |-> 0]
               /\ tpc' = "done"
               /\ tobs' = tobs
          ELSE /\ (~check_broke_memory_limit(diff) \/ chk.kind = "CpuTimeExceeded") => peak = 7
               /\ tres' = IF chk.kind = "Ok" THEN tres ELSE chk
               /\ tpc' = IF chk.kind = "Ok" THEN "awaiting" ELSE "done"
               /\ tobs' = [at |-> "poll", diff |-> diff]
    /\ UNCHANGED <<tlimit, tbase, tcg>>

\* What wait_for_new_message can hand to the first branch of the loop.
Completions == {"Success", "Failure", "Cancelled", "TimedOut", "Unexpected", "Err"}

\* First branch of the select loop: the reply of the worker process (or the
\* end of the wait); a Success is followed by get_stats and check_stat_diff.
Completion ==
    /\ tpc = "awaiting"
    /\ \E msg \in Completions, read_ok \in BOOLEAN, peak \in PeakReads :
          LET diff == StatsSub(tcg, tbase)
              chk == check_stat_diff_usec(diff, peak, tlimit)
          IN
          /\ (msg # "Success" \/ ~read_ok \/ ~check_broke_memory_limit(diff)
                 \/ chk.kind = "CpuTimeExceeded") => peak = 7
          /\ msg # "Success" => read_ok
          /\ tres' = CASE msg = "Success" /\ read_ok -> chk
                        [] msg = "Success" -> [kind |-> "Judge", usage |-> 0]
                        [] msg = "Failure" -> [kind |-> "Runtime", usage |-> 0]
                        [] msg = "Cancelled" -> [kind |-> "Cancelled", usage |-> 0]
                        [] msg = "TimedOut" -> [kind |-> "HardTimeLimitExceeded", usage |-> 0]
                        [] OTHER -> [kind |-> "Judge", usage |-> 0]
          /\ tobs' = IF msg = "Success" /\ read_ok
                     THEN [at |-> "completion", diff |-> diff]
                     ELSE tobs
    /\ tpc' = "done"
    /\ UNCHANGED <<tlimit, tbase, tcg>>

\* Between two commands the processes left in the cgroup (the worker
\* process itself) use CPU.
IdleUsed ==
    /\ tpc = "done"
    /\ tres.kind \in {"Ok", "Runtime"}
    /\ tcmd.n < MaxTracked
    /\ ~tcmd.idle
    /\ tcg' = [tcg EXCEPT !.cpu_usage_usec = @ + 5]
    /\ tcmd' = [tcmd EXCEPT !.idle = TRUE]
    /\ UNCHANGED <<tlimit, tbase, tpc, tres, tobs>>

\* _exec_cmd of the next tracked command, up to send_message: update_stats
\* reads the counters and stores them, base_stats is that last_stat, RunCmd
\* is sent.  A get_stats that fails ends the call.
ExecTracked ==
    /\ tpc = "done"
    /\ tres.kind \in {"Ok", "Runtime"}
    /\ tcmd.n < MaxTracked
    /\ \E read_ok \in BOOLEAN :
          IF read_ok
          THEN /\ tbase' = update_stats(tbase, tcg)
               /\ tpc' = "awaiting"
               /\ tres' = NoStatResult
               /\ tcmd' = [n |-> tcmd.n + 1, sent |-> tcg, idle |-> FALSE]
          ELSE /\ tres' = [kind |-> "Judge", usage |-> 0]
               /\ tcmd' = [tcmd EXCEPT !.n = @ + 1]
               /\ UNCHANGED <<tbase, tpc>>
    /\ tobs' = NoStatRead
    /\ UNCHANGED <<tlimit, tcg>>

StatNext ==
    \/ CpuUsed /\ UNCHANGED tcmd /\ UNCHANGED restOfStat
    \/ MemoryHigh /\ UNCHANGED tcmd /\ UNCHANGED restOfStat
    \/ PollTick /\ UNCHANGED tcmd /\ UNCHANGED restOfStat
    \/ Completion /\ UNCHANGED tcmd /\ UNCHANGED restOfStat
    \/ IdleUsed /\ UNCHANGED restOfStat
    \/ ExecTracked /\ UNCHANGED restOfStat

\* ------------------------------------------------------------------------
\* TestCase::check_output
\* ------------------------------------------------------------------------

\* Longest program output and longest expected pattern, in characters.
MaxOutputLen == 3

MaxPatternLen == 2

\* Characters of outputs and patterns: a letter in both cases, a white
\* space and a regex metacharacter.
Chars == {"a", "A", " ", "."}

Whitespace == {" "}

MetaChars == {"."}

Strings(n) == UNION {[1..k -> Chars] : k \in 0..n}

RECURSIVE trim_end(_)
\* str::trim_end
trim_end(s) ==
    IF s # <<>> /\ s[Len(s)] \in Whitespace
    THEN trim_end(SubSeq(s, 1, Len(s) - 1))
    ELSE s

RECURSIVE trim_start(_)
\* str::trim_start
trim_start(s) ==
    IF s # <<>> /\ Head(s) \in Whitespace THEN trim_start(Tail(s)) ELSE s

\* str::trim: white space is removed at both ends.
trim(s) == trim_start(trim_end(s))

\* str::to_lowercase
to_lowercase(s) == [i \in 1..Len(s) |-> IF s[i] = "A" THEN "a" ELSE s[i]]

\* One character of a pattern against one character of the text: `.`
\* matches any character, anything else (a white space too) itself, or its
\* other case under case_insensitive.
atom_matches(p, c, case_insensitive) ==
    \/ p \in MetaChars
    \/ p = c
    \/ case_insensitive /\ to_lowercase(<<p>>) = to_lowercase(<<c>>)

\* Regex::is_match of a pattern made of such characters: a search, the
\* pattern matches if it matches anywhere in the text.
is_match(pattern, case_insensitive, text) ==
    \E i \in 0..(Len(text) - Len(pattern)) :
        \A k \in 1..Len(pattern) : atom_matches(pattern[k], text[i + k], case_insensitive)

\* TestCase::check_output.  Every pattern over Chars builds, so the result
\* is the Ok value.
check_output(case, output) ==
    IF case.use_regex
    THEN is_match(case.expected_pattern, case.case_insensitive, trim(output))
    ELSE IF case.case_insensitive
         THEN to_lowercase(trim(output)) = to_lowercase(trim(case.expected_pattern))
         ELSE trim(output) = trim(case.expected_pattern)

Verdict(b) == IF b THEN "true" ELSE "false"

\* TestCaseForm: the expected pattern has at least one character.
TestCase(pattern, use_regex, case_insensitive) ==
    [expected_pattern |-> pattern, use_regex |-> use_regex,
     case_insensitive |-> case_insensitive]

CaseInit ==
    /\ ccase \in {TestCase(p, r, i) : p \in Strings(MaxPatternLen) \ {<<>>},
                                      r \in BOOLEAN, i \in BOOLEAN}
    /\ coutput \in Strings(MaxOutputLen)
    /\ cverdict = "none"

\* No test case is being judged.
CaseIdle ==
    /\ ccase = TestCase(<<"a">>, FALSE, FALSE)
    /\ coutput = <<>>
    /\ cverdict = "none"

\* The output of the program is checked against the case.
CheckOutput ==
    /\ cverdict = "none"
    /\ cverdict' = Verdict(check_output(ccase, coutput))
    /\ UNCHANGED <<ccase, coutput>>

\* The same run with one more white space at the end of its output.
OutputPadded ==
    /\ cverdict # "none"
    /\ Len(coutput) < MaxOutputLen
    /\ \E w \in Whitespace : coutput' = Append(coutput, w)
    /\ cverdict' = Verdict(check_output(ccase, coutput'))
    /\ UNCHANGED ccase

\* The same run with one white space less at the end of its output.
OutputStripped ==
    /\ cverdict # "none"
    /\ coutput # <<>> /\ coutput[Len(coutput)] \in Whitespace
    /\ coutput' = SubSeq(coutput, 1, Len(coutput) - 1)
    /\ cverdict' = Verdict(check_output(ccase, coutput'))
    /\ UNCHANGED ccase

\* The case is saved with one more white space at the end of its pattern
\* and the output is checked again.
PatternPadded ==
    /\ cverdict # "none"
    /\ Len(ccase.expected_pattern) < MaxPatternLen
    /\ \E w \in Whitespace :
          ccase' = [ccase EXCEPT !.expected_pattern = Append(@, w)]
    /\ cverdict' = Verdict(check_output(ccase', coutput))
    /\ UNCHANGED coutput

\* The case is saved with one white space less at the end of its pattern.
PatternStripped ==
    /\ cverdict # "none"
    /\ Len(ccase.expected_pattern) > 1
    /\ ccase.expected_pattern[Len(ccase.expected_pattern)] \in Whitespace
    /\ ccase' = [ccase EXCEPT !.expected_pattern = SubSeq(@, 1, Len(@) - 1)]
    /\ cverdict' = Verdict(check_output(ccase', coutput))
    /\ UNCHANGED coutput

\* The case is saved with use_regex switched and the output is checked
\* again.
RegexSwitched ==
    /\ cverdict # "none"
    /\ ccase' = [ccase EXCEPT !.use_regex = ~@]
    /\ cverdict' = Verdict(check_output(ccase', coutput))
    /\ UNCHANGED coutput

CaseNext ==
    \/ CheckOutput /\ UNCHANGED restOfCase
    \/ OutputPadded /\ UNCHANGED restOfCase
    \/ OutputStripped /\ UNCHANGED restOfCase
    \/ PatternPadded /\ UNCHANGED restOfCase
    \/ PatternStripped /\ UNCHANGED restOfCase
    \/ RegexSwitched /\ UNCHANGED restOfCase

\* ------------------------------------------------------------------------
\* The cgroup tree: setup_cgroups and the cgroup of a Worker
\* ------------------------------------------------------------------------

\* Workers made in one life of the service.
MaxWorkers == 3

WorkerIds == 1..MaxWorkers

\* Values of the clock read by make_temp_name.
Nanos == {1, 2}

\* The name of one cgroup directory; id and nanos are 0 unless it is the
\* cgroup of a worker.
CgName(base, id, nanos) == [base |-> base, id |-> id, nanos |-> nanos]

SERVICE_CGROUP_NAME == CgName("wcpc_service", 0, 0)

\* Worker::new: make_temp_name(format!("wcpc_worker_{}", id)).
make_temp_name(id, nanos) == CgName("wcpc_worker", id, nanos)

\* CGroup::create_child / get_child: self.path.join(name).
get_child(cg, name) == Append(cg, name)

\* The directory a cgroup lies in.
CgParent(cg) == SubSeq(cg, 1, Len(cg) - 1)

\* CGroup::get_current: the cgroup in /proc/self/cgroup, the root of the
\* hierarchy or a group delegated to the service.
InheritedCgroups == {<<>>, <<CgName("wcpci.service", 0, 0)>>}

NoCgroups == [some |-> FALSE, root |-> <<>>, service |-> <<>>]

NoWorkerCg == [st |-> "none", path |-> <<>>]

\* setup_cgroups returns (root_group, new_group).
setup_cgroups(root_group) ==
    [some |-> TRUE, root |-> root_group,
     service |-> get_child(root_group, SERVICE_CGROUP_NAME)]

\* Worker::new: the group its cgroup is created in, the first of the pair.
root_cgroup(cgroups) == cgroups.root

\* The service process starts in the cgroup it inherited; a wcpc_service
\* group of an earlier life may still be there.
CgInit ==
    /\ gpc = "start"
    /\ gself \in InheritedCgroups
    /\ \E stale \in BOOLEAN :
          gfs = {gself} \cup (IF stale THEN {get_child(gself, SERVICE_CGROUP_NAME)} ELSE {})
    /\ gcgroups = NoCgroups
    /\ gworkers = [id \in WorkerIds |-> NoWorkerCg]

\* No service is running.
CgIdle ==
    /\ gpc = "failed"
    /\ gself = <<>>
    /\ gfs = {<<>>}
    /\ gcgroups = NoCgroups
    /\ gworkers = [id \in WorkerIds |-> NoWorkerCg]

\* IsolationConfig::setup -> setup_cgroups: a stale service group is cleared,
\* the service group is created under the current group, the service moves
\* its PID into it and enables the controllers for the children of the
\* current group.  On an error a debug build goes on without cgroups and a
\* release build does not start.
SetupCgroups ==
    /\ gpc = "start"
    /\ \E res \in {"ok", "err"}, debug \in BOOLEAN :
          IF res = "ok"
          THEN /\ gcgroups' = setup_cgroups(gself)
               /\ gfs' = gfs \cup {gcgroups'.service}
               /\ gself' = gcgroups'.service
               /\ gpc' = "running"
          ELSE /\ gpc' = IF debug THEN "running" ELSE "failed"
               /\ UNCHANGED <<gcgroups, gfs, gself>>
    /\ UNCHANGED gworkers

\* Worker::new up to apply_hard_limits: the Worker's cgroup is created.
WorkerNew ==
    /\ gpc = "running"
    /\ \E id \in WorkerIds, nanos \in Nanos :
          /\ gworkers[id].st = "none"
          /\ IF gcgroups.some
             THEN LET cgroup == get_child(root_cgroup(gcgroups), make_temp_name(id, nanos))
                  IN  /\ gfs' = gfs \cup {cgroup}
                      /\ gworkers' = [gworkers EXCEPT ![id] = [st |-> "live", path |-> cgroup]]
             ELSE /\ gworkers' = [gworkers EXCEPT ![id].st = "failed"]
                  /\ UNCHANGED gfs
    /\ UNCHANGED <<gpc, gself, gcgroups>>

\* The Worker is dropped: shutdown_sync removes its cgroup, or gives up.
WorkerDropped ==
    /\ \E id \in WorkerIds, removed \in BOOLEAN :
          /\ gworkers[id].st = "live"
          /\ gworkers' = [gworkers EXCEPT ![id].st = "dropped"]
          /\ gfs' = IF removed THEN gfs \ {gworkers[id].path} ELSE gfs
    /\ UNCHANGED <<gpc, gself, gcgroups>>

CgNext ==
    \/ SetupCgroups /\ UNCHANGED restOfCg
    \/ WorkerNew /\ UNCHANGED restOfCg
    \/ WorkerDropped /\ UNCHANGED restOfCg

\* ------------------------------------------------------------------------
\* The wall-clock ceilings of the waits of a Worker
\* (run/worker/service_side.rs: init, _exec_cmd, wait_for_new_message,
\* wait_child, wait_for)
\* ------------------------------------------------------------------------

\* Largest configured timeout, in seconds.
MaxSecs == 2

\* An Option<Duration>, in seconds.
NoDuration == [some |-> FALSE, secs |-> 0]

SomeDuration(secs) == [some |-> TRUE, secs |-> secs]

\* timeout.unwrap_or(self.timeout_internal) of wait_for_new_message.
unwrap_or(timeout, default) == IF timeout.some THEN timeout.secs ELSE default

\* Where wait_for is called from: the two waits of init, the wait for the
\* reply to a command in _exec_cmd, and wait_child (from finish, and from
\* wait_for_new_message after an InternalError line).
WaitSites == {"init_request", "init_ready", "reply", "child_exit"}

\* Every wait under the internal timeout.
site_timeout_internal(site, cfg) == cfg.internal

\* The timeout each call site hands to wait_for.
site_timeout(site, cfg) ==
    CASE site = "reply" -> unwrap_or(SomeDuration(cfg.user), cfg.internal)
      [] site \in {"init_request", "init_ready"} -> unwrap_or(NoDuration, cfg.internal)
      [] OTHER -> cfg.internal

NoWait == [site |-> "none", timeout |-> 0]

NoWaitResult == [site |-> "none", res |-> "none", at |-> 0]

\* Worker::new has spawned the worker process and calls init.
WaitInit ==
    /\ hcfg \in [user : 0..MaxSecs, internal : 0..MaxSecs]
    /\ hpc = "new"
    /\ hwait = NoWait
    /\ hclock = 0
    /\ hcancel = FALSE
    /\ hres = NoWaitResult

\* No Worker: none is waiting.
WaitIdle ==
    /\ hcfg = [user |-> 0, internal |-> 0]
    /\ hpc = "ended"
    /\ hwait = NoWait
    /\ hclock = 0
    /\ hcancel = FALSE
    /\ hres = NoWaitResult

\* A wait_for begins at a call site.
BeginWait(site) ==
    /\ hwait' = [site |-> site, timeout |-> site_timeout(site, hcfg)]
    /\ hclock' = 0
    /\ hpc' = "waiting"

\* Worker::init: InitialInfo is sent and the first message is awaited.
TimedInit ==
    /\ hpc = "new"
    /\ BeginWait("init_request")
    /\ UNCHANGED <<hcfg, hcancel, hres>>

\* compile / run_cmd -> _exec_cmd: RunCmd is sent and the reply is awaited.
TimedExec ==
    /\ hpc = "ready"
    /\ BeginWait("reply")
    /\ UNCHANGED <<hcfg, hcancel, hres>>

\* finish: Stop is sent and the exit of the child is awaited.
TimedFinish ==
    /\ hpc = "ready"
    /\ BeginWait("child_exit")
    /\ UNCHANGED <<hcfg, hcancel, hres>>

\* One second passes during a wait; the sleep of wait_for, if armed, is due
\* when the clock reaches its timeout.
WaitTick ==
    /\ hpc = "waiting"
    /\ hclock <= MaxSecs
    /\ timer_armed(hwait.timeout) => hclock < hwait.timeout
    /\ hclock' = hclock + 1
    /\ UNCHANGED <<hcfg, hpc, hwait, hcancel, hres>>

\* The shutdown token is cancelled.
WaitCancel ==
    /\ hpc \in {"waiting", "ready"}
    /\ ~hcancel
    /\ hcancel' = TRUE
    /\ UNCHANGED <<hcfg, hpc, hwait, hclock, hres>>

\* What follows a wait that ended: init goes on to its second wait or
\* returns; a failed init and a reply that is an InternalError line lead to
\* wait_child; a timed-out command makes exec_cmd kill the child; after
\* wait_child the child is gone.
AfterWait(site, res, internal_error) ==
    CASE site = "init_request" /\ res = "Ok" /\ ~internal_error -> "init_ready"
      [] site = "init_ready" /\ res = "Ok" /\ ~internal_error -> "ready"
      [] site \in {"init_request", "init_ready"} -> "child_exit"
      [] site = "reply" /\ res = "Ok" /\ internal_error -> "child_exit"
      [] site = "reply" /\ res = "HardTimeout" -> "ended"
      [] site = "reply" -> "ready"
      [] OTHER -> "ended"

\* wait_for returns: its future is ready (a line of the worker, the exit of
\* the child), the token is cancelled, or the armed sleep has elapsed.
WaitEnds ==
    /\ hpc = "waiting"
    /\ \E res \in {"Ok", "Cancelled", "HardTimeout"}, internal_error \in BOOLEAN :
          /\ res = "Cancelled" => hcancel
          /\ res = "HardTimeout" =>
                (timer_armed(hwait.timeout) /\ hclock >= hwait.timeout)
          /\ internal_error => (res = "Ok" /\ hwait.site # "child_exit")
          /\ hres' = [site |-> hwait.site, res |-> res, at |-> hclock]
          /\ LET next == AfterWait(hwait.site, res, internal_error)
             IN  IF next \in WaitSites
                 THEN BeginWait(next)
                 ELSE /\ hpc' = next
                      /\ hwait' = NoWait
                      /\ hclock' = 0
    /\ UNCHANGED <<hcfg, hcancel>>

WaitNext ==
    \/ TimedInit /\ UNCHANGED restOfWait
    \/ TimedExec /\ UNCHANGED restOfWait
    \/ TimedFinish /\ UNCHANGED restOfWait
    \/ WaitTick /\ UNCHANGED restOfWait
    \/ WaitCancel /\ UNCHANGED restOfWait
    \/ WaitEnds /\ UNCHANGED restOfWait

\* ------------------------------------------------------------------------
\* The removal of a cgroup (run/worker/isolation/cgroup.rs: shutdown,
\* shutdown_sync)
\* ------------------------------------------------------------------------

\* A loop that gives up one failure later.
gives_up_late(times) == times > SHUTDOWN_GIVE_UP_COUNT

\* if times >= Self::SHUTDOWN_GIVE_UP_COUNT { bail!(..) }
gives_up(times) == times >= SHUTDOWN_GIVE_UP_COUNT

NoRmLog == [rmdirs |-> 0, kills |-> 0]

\* Bound on the processes of the cgroup that is removed.
MaxProcs == 2

\* shutdown or shutdown_sync is called on a cgroup that does not exist, is
\* empty, or still has processes.
RmInit ==
    /\ rmode \in {"shutdown", "shutdown_sync"}
    /\ rpc = "start"
    /\ rtimes = 0
    /\ rdir \in {"absent", "present"}
    /\ rprocs \in 0..MaxProcs
    /\ rdir = "absent" => rprocs = 0
    /\ rlog = NoRmLog

\* No removal is under way.
RmIdle ==
    /\ rmode = "shutdown"
    /\ rpc = "ok"
    /\ rtimes = 0
    /\ rdir = "absent"
    /\ rprocs = 0
    /\ rlog = NoRmLog

\* if self.exists(): a cgroup that is not there is Ok at once.
RmExists ==
    /\ rpc = "start"
    /\ rpc' = IF rdir = "absent" THEN "ok" ELSE "rmdir"
    /\ UNCHANGED <<rmode, rtimes, rdir, rprocs, rlog>>

\* The loop condition rm_dir().is_err() and the give-up test: rmdir removes
\* an empty cgroup and fails on any other; after a failure the loop bails
\* once times has reached the give-up count.
RmDir ==
    /\ rpc = "rmdir"
    /\ rlog' = [rlog EXCEPT !.rmdirs = @ + 1]
    /\ IF rprocs = 0
       THEN rdir' = "absent" /\ rpc' = "ok"
       ELSE rdir' = rdir /\ rpc' = IF gives_up(rtimes) THEN "err" ELSE "kill"
    /\ UNCHANGED <<rmode, rtimes, rprocs>>

\* write_prop("cgroup.kill", "1")?: the processes of the cgroup are sent
\* SIGKILL (when each of them is gone is ProcGone's); a failed write ends
\* the removal with its error.
RmKill ==
    /\ rpc = "kill"
    /\ rlog' = [rlog EXCEPT !.kills = @ + 1]
    /\ \E written \in BOOLEAN :
          rpc' = IF written THEN "sleep" ELSE "err"
    /\ UNCHANGED <<rmode, rtimes, rdir, rprocs>>

\* sleep(SHUTDOWN_KILL_WAIT_MS); times += 1.
RmSleep ==
    /\ rpc = "sleep"
    /\ rtimes' = rtimes + 1
    /\ rpc' = "rmdir"
    /\ UNCHANGED <<rmode, rdir, rprocs, rlog>>

\* A process of the cgroup is gone: it ended, or the kill got it.
ProcGone ==
    /\ rpc \notin {"ok", "err"}
    /\ rprocs > 0
    /\ rprocs' = rprocs - 1
    /\ UNCHANGED <<rmode, rpc, rtimes, rdir, rlog>>

RmNext ==
    \/ RmExists /\ UNCHANGED restOfRm
    \/ RmDir /\ UNCHANGED restOfRm
    \/ RmKill /\ UNCHANGED restOfRm
    \/ RmSleep /\ UNCHANGED restOfRm
    \/ ProcGone /\ UNCHANGED restOfRm

\* ------------------------------------------------------------------------
\* The lines between a Worker and its worker process
\* (run/worker/service_side.rs: _exec_cmd, wait_for_new_message;
\* run/worker/worker_side.rs: _run_from_child, run_cmd; run/config.rs:
\* make_command)
\* ------------------------------------------------------------------------

\* Bound on the commands of one Worker.
MaxCalls == 2

NoLine == [msg |-> "None", of |-> 0, by |-> ""]

NoCall == [n |-> 0, kind |-> "None", reply |-> NoLine]

\* The worker process runs the program with cmd.spawn(): make_command sets
\* neither stdout nor stderr and the loop sets only stdin, so the program
\* inherits the stdout of the worker process, which is the pipe the Worker
\* reads its messages from.  What a line written by the program
\* deserializes to: a CmdComplete, or nothing.
ProgramLines == {"Success", "Failure", "Garbled"}

\* WorkerMessage::CmdComplete(output.into()): Success or Failure by the exit
\* status of the program.
CmdCompleteLines == {"Success", "Failure"}

\* The branches of wait_for that are ready (cf. ReadyBranches).
PairReady ==
    (IF qout # <<>> THEN {"reply"} ELSE {})
      \cup (IF qtoken THEN {"cancelled"} ELSE {})
      \cup (IF qtimer THEN {"timeout"} ELSE {})

\* Worker::new has returned Ok: the worker process is in its loop, nothing
\* has been sent.
PairInit ==
    /\ qpc = "ready"
    /\ qn = 0
    /\ qtoken = FALSE
    /\ qtimer = FALSE
    /\ qproc = "loop"
    /\ qrun = 0
    /\ qin = <<>>
    /\ qout = <<>>
    /\ qres = NoCall

\* No Worker.
PairIdle ==
    /\ qpc = "released"
    /\ qn = 0
    /\ qtoken = FALSE
    /\ qtimer = FALSE
    /\ qproc = "dead"
    /\ qrun = 0
    /\ qin = <<>>
    /\ qout = <<>>
    /\ qres = NoCall

\* run_case() / run_cmd() up to the select loop: send_message(RunCmd)
\* fails on the pipe of a worker process that is dead (exec_cmd then calls
\* kill_child for the Judge error), else the line is written.
PairExecCmd ==
    /\ qpc = "ready"
    /\ qn < MaxCalls
    /\ run_job_continues([kind |-> qres.kind])
    /\ qn' = qn + 1
    /\ qtimer' = FALSE
    /\ IF qproc = "dead"
       THEN /\ qres' = [n |-> qn + 1, kind |-> "Judge", reply |-> NoLine]
            /\ UNCHANGED <<qpc, qin>>
       ELSE /\ qin' = Append(qin, qn + 1)
            /\ qpc' = "awaiting"
            /\ qres' = qres
    /\ UNCHANGED <<qtoken, qproc, qrun, qout>>

\* _run_from_child: ServiceMessage::wait_for gives a RunCmd; run_cmd spawns
\* the program.
WorkerReads ==
    /\ qproc = "loop"
    /\ qin # <<>>
    /\ qrun' = Head(qin)
    /\ qin' = Tail(qin)
    /\ qproc' = "running"
    /\ UNCHANGED <<qpc, qn, qtoken, qtimer, qout, qres>>

\* The program writes a line to its stdout (once per command here).
ProgramPrints ==
    /\ qproc = "running"
    /\ \A i \in 1..Len(qout) : ~(qout[i].by = "program" /\ qout[i].of = qrun)
    /\ qres.reply.by = "program" => qres.reply.of # qrun
    /\ \E m \in ProgramLines :
          qout' = Append(qout, [msg |-> m, of |-> qrun, by |-> "program"])
    /\ UNCHANGED <<qpc, qn, qtoken, qtimer, qproc, qrun, qin, qres>>

\* run_cmd: wait_with_output returns, WorkerMessage::CmdComplete is sent;
\* the worker process is back in its loop.
WorkerCmdComplete ==
    /\ qproc = "running"
    /\ \E m \in CmdCompleteLines :
          qout' = Append(qout, [msg |-> m, of |-> qrun, by |-> "worker"])
    /\ qproc' = "loop"
    /\ qrun' = 0
    /\ UNCHANGED <<qpc, qn, qtoken, qtimer, qin, qres>>

\* The job's token is cancelled from outside.
PairCancel ==
    /\ qpc # "released"
    /\ ~qtoken
    /\ qtoken' = TRUE
    /\ UNCHANGED <<qpc, qn, qtimer, qproc, qrun, qin, qout, qres>>

\* The sleep(timeout_user) of wait_for elapses.
PairTimeout ==
    /\ qpc = "awaiting"
    /\ ~qtimer
    /\ qtimer' = TRUE
    /\ UNCHANGED <<qpc, qn, qtoken, qproc, qrun, qin, qout, qres>>

\* What exec_cmd does to the worker process and the token with the value r
\* of the select loop: shutdown.cancel() and kill_child() for an error that
\* must kill the worker.
PairReturn(r, line) ==
    /\ qres' = [n |-> qn, kind |-> r.res.kind, reply |-> line]
    /\ qtoken' = (qtoken \/ cancels_token(r))
    /\ qproc' = IF kills_child(r) THEN "dead" ELSE qproc
    /\ qrun' = IF kills_child(r) THEN 0 ELSE qrun
    /\ qin' = IF kills_child(r) THEN <<>> ELSE qin
    /\ qpc' = "ready"

\* _exec_cmd, first branch of the select loop, and the rest of exec_cmd:
\* read_line gives the next line of the pipe, whichever it is.
PairWaitFor ==
    /\ qpc = "awaiting"
    /\ PairReady # {}
    /\ \E b \in PairReady, st \in {"ok", "cpu"} :
          LET line == IF b = "reply" THEN Head(qout) ELSE NoLine
              r == reply_branch(b, [msg |-> line.msg, out |-> ""], TRUE, st)
          IN
          /\ st = "cpu" => (b = "reply" /\ line.msg = "Success")
          /\ PairReturn(r, line)
          /\ qout' = IF b = "reply" THEN Tail(qout) ELSE qout
    /\ UNCHANGED <<qn, qtimer>>

\* _exec_cmd, second branch of the select loop: the poll finds a limit
\* broken.
PairStatPoll ==
    /\ qpc = "awaiting"
    /\ PairReady = {}
    /\ PairReturn(poll_branch("cpu"), NoLine)
    /\ UNCHANGED <<qn, qtimer, qout>>

\* finish(): Stop is sent (or the child killed) and the child waited for.
PairFinish ==
    /\ qpc = "ready"
    /\ qpc' = "released"
    /\ qproc' = "dead"
    /\ qrun' = 0
    /\ qin' = <<>>
    /\ UNCHANGED <<qn, qtoken, qtimer, qout, qres>>

PairNext ==
    \/ PairExecCmd /\ UNCHANGED restOfPair
    \/ WorkerReads /\ UNCHANGED restOfPair
    \/ ProgramPrints /\ UNCHANGED restOfPair
    \/ WorkerCmdComplete /\ UNCHANGED restOfPair
    \/ PairCancel /\ UNCHANGED restOfPair
    \/ PairTimeout /\ UNCHANGED restOfPair
    \/ PairWaitFor /\ UNCHANGED restOfPair
    \/ PairStatPoll /\ UNCHANGED restOfPair
    \/ PairFinish /\ UNCHANGED restOfPair

\* ------------------------------------------------------------------------
\* Worker::new, step by step, and what it leaves behind
\* (run/worker/service_side.rs: Worker::new, Drop for Worker;
\* run/worker/isolation/cgroup.rs: Drop for CGroup)
\* ------------------------------------------------------------------------

NoName == CgName("", 0, 0)

NothingMade == [cgroup |-> "none", tmp |-> "none"]

\* What a removal makes of a directory.
Removal(dir, removed) ==
    IF dir # "exists" THEN dir ELSE IF removed THEN "removed" ELSE "stuck"

\* Worker::new returns Err by `?` while it holds the CGroup (ephemeral) and
\* no Worker yet: Drop for CGroup runs shutdown_sync on the cgroup, which
\* has no process; nothing else is undone.
bails(fs, removed) == [fs EXCEPT !.cgroup = Removal(@, removed)]

NewInit ==
    /\ ncfg \in [cgroups : BOOLEAN, parent : BOOLEAN]
    /\ nid \in WorkerIds
    /\ nname = NoName
    /\ npc = "id_maps"
    /\ nfs = NothingMade
    /\ nchild = "none"
    /\ nret = "none"

\* No call of Worker::new.
NewIdle ==
    /\ ncfg = [cgroups |-> FALSE, parent |-> FALSE]
    /\ nid = 0
    /\ nname = NoName
    /\ npc = "returned"
    /\ nfs = NothingMade
    /\ nchild = "none"
    /\ nret = "none"

\* get_uid_gid_maps(&iso)? and make_temp_name(..)?.
NewIdMaps ==
    /\ npc = "id_maps"
    /\ \E ok \in BOOLEAN, nanos \in Nanos :
          IF ok
          THEN npc' = "cgroup" /\ nname' = make_temp_name(nid, nanos) /\ nret' = nret
          ELSE npc' = "returned" /\ nname' = nname /\ nret' = "err"
    /\ UNCHANGED <<ncfg, nid, nfs, nchild>>

\* iso.cgroups ... .context("No cgroup root")? and
\* root_cgroup.create_child(&name, true)?.
NewCreateChild ==
    /\ npc = "cgroup"
    /\ \E ok \in BOOLEAN :
          IF ok /\ ncfg.cgroups
          THEN npc' = "hard_limits" /\ nfs' = [nfs EXCEPT !.cgroup = "exists"] /\ nret' = nret
          ELSE npc' = "returned" /\ nfs' = nfs /\ nret' = "err"
    /\ UNCHANGED <<ncfg, nid, nname, nchild>>

\* cgroup.apply_hard_limits(&iso.limits)?.
NewHardLimits ==
    /\ npc = "hard_limits"
    /\ \E ok, removed \in BOOLEAN :
          IF ok
          THEN npc' = "make_temp" /\ nfs' = nfs /\ nret' = nret
          ELSE npc' = "returned" /\ nfs' = bails(nfs, removed) /\ nret' = "err"
    /\ UNCHANGED <<ncfg, nid, nname, nchild>>

\* Self::make_temp(tmp_parent, &name)?: create_dir_all.
NewMakeTemp ==
    /\ npc = "make_temp"
    /\ \E ok, removed \in BOOLEAN :
          IF ok
          THEN npc' = "spawn" /\ nfs' = [nfs EXCEPT !.tmp = "exists"] /\ nret' = nret
          ELSE npc' = "returned" /\ nfs' = bails(nfs, removed) /\ nret' = "err"
    /\ UNCHANGED <<ncfg, nid, nname, nchild>>

\* Self::create_command(&tmp_dir)?.spawn()?: tmp_dir is a PathBuf, which
\* removes nothing when it goes out of scope.
NewSpawn ==
    /\ npc = "spawn"
    /\ \E ok, removed \in BOOLEAN :
          IF ok
          THEN npc' = "init" /\ nchild' = "alive" /\ nfs' = nfs /\ nret' = nret
          ELSE npc' = "returned" /\ nchild' = nchild /\ nfs' = bails(nfs, removed)
                 /\ nret' = "err"
    /\ UNCHANGED <<ncfg, nid, nname>>

\* worker.init(..): Ok(worker), or worker.finish() and the error: finish
\* stops or kills the child and consumes the Worker, whose Drop removes the
\* temp directory, kills and awaits the child and shuts the cgroup down.
NewInitDone ==
    /\ npc = "init"
    /\ \E ok, rm_ok \in BOOLEAN, gone \in ShutdownResults :
          IF ok
          THEN nchild' = nchild /\ nfs' = nfs /\ nret' = "ok"
          ELSE /\ nchild' = "reaped"
               /\ nfs' = [cgroup |-> Removal(nfs.cgroup, gone), tmp |-> Removal(nfs.tmp, rm_ok)]
               /\ nret' = "err"
    /\ npc' = "returned"
    /\ UNCHANGED <<ncfg, nid, nname>>

NewNext ==
    \/ NewIdMaps /\ UNCHANGED restOfNew
    \/ NewCreateChild /\ UNCHANGED restOfNew
    \/ NewHardLimits /\ UNCHANGED restOfNew
    \/ NewMakeTemp /\ UNCHANGED restOfNew
    \/ NewSpawn /\ UNCHANGED restOfNew
    \/ NewInitDone /\ UNCHANGED restOfNew

\* ------------------------------------------------------------------------
\* The sub-id maps of a worker (run/worker/isolation/id_map.rs)
\* ------------------------------------------------------------------------

\* const REQUIRED_RANGE_LEN: usize = 2
REQUIRED_RANGE_LEN == 2

\* Bound on the length of an allowed range.
MaxRangeLen == 3

\* Where the allowed ranges start.
RangeStarts == {10, 20}

\* The ranges of the configuration or of /etc/subuid, /etc/subgid.
SubIdRanges ==
    {[start |-> s, end |-> s + n] : s \in RangeStarts, n \in 0..MaxRangeLen}

\* Range<u32>::len.
RangeLen(r) == IF r.end > r.start THEN r.end - r.start ELSE 0

\* SubIdRange::assert_enough.
assert_enough(r, count) == RangeLen(r) >= count

\* SubIdRange::get_random_id: what rng.random_range(range) can give.
get_random_id(r) == r.start..(r.end - 1)

\* What (range.map_to(0), range.map_to(RUNNER_ID)) can give: map_to draws
\* the outside id anew at each call.
map_pairs(r) == [root : get_random_id(r), runner : get_random_id(r)]

NoIdPair == [root |-> 0, runner |-> 0]

NoIdMaps == [uid |-> NoIdPair, gid |-> NoIdPair]

IdInit ==
    /\ ipc = "start"
    /\ iranges \in [uid : SubIdRanges, gid : SubIdRanges]
    /\ imaps = NoIdMaps

\* No call of get_uid_gid_maps.
IdIdle ==
    /\ ipc = "failed"
    /\ iranges = [uid |-> [start |-> 0, end |-> 0], gid |-> [start |-> 0, end |-> 0]]
    /\ imaps = NoIdMaps

\* get_range_for("/etc/subuid", ..)? and get_range_for("/etc/subgid", ..)?.
IdGetRanges ==
    /\ ipc = "start"
    /\ ipc' = IF assert_enough(iranges.uid, REQUIRED_RANGE_LEN)
                 /\ assert_enough(iranges.gid, REQUIRED_RANGE_LEN)
              THEN "uid" ELSE "failed"
    /\ UNCHANGED <<iranges, imaps>>

\* (uid_range.map_to(0), uid_range.map_to(RUNNER_UID)).
IdMapUid ==
    /\ ipc = "uid"
    /\ \E m \in map_pairs(iranges.uid) : imaps' = [imaps EXCEPT !.uid = m]
    /\ ipc' = "gid"
    /\ UNCHANGED iranges

\* (gid_range.map_to(0), gid_range.map_to(RUNNER_GID)).
IdMapGid ==
    /\ ipc = "gid"
    /\ \E m \in map_pairs(iranges.gid) : imaps' = [imaps EXCEPT !.gid = m]
    /\ ipc' = "done"
    /\ UNCHANGED iranges

IdNext ==
    \/ IdGetRanges /\ UNCHANGED restOfId
    \/ IdMapUid /\ UNCHANGED restOfId
    \/ IdMapGid /\ UNCHANGED restOfId

\* ------------------------------------------------------------------------
\* The locks of the RunManager (run/manager.rs; run/ws.rs: the callers hold
\* the manager mutex for the whole of an operation)
\* ------------------------------------------------------------------------

\* The operations called under the manager mutex.
LockOps == {"request_job", "get_handle", "shutdown_job", "shutdown", "all_active_jobs"}

NoOp == [op |-> "none", user |-> "", pc |-> "none", left |-> <<>>, found |-> FALSE]

\* The orders in which a set of at most two jobs can be visited.
OrdersOf(S) ==
    IF S = {} THEN {<<>>}
    ELSE UNION {{<<j>> \o rest : rest \in IF S \ {j} = {} THEN {<<>>}
                                                  ELSE {<<k>> : k \in S \ {j}}} : j \in S}

\* The jobs of the map entries.
MapJobs == {ljobs[u] : u \in Users} \ {0}

\* The slots an operation locks: the entry of its user (request_job,
\* get_handle, shutdown_job) or every entry (shutdown, all_active_jobs).
slots_of(op, u) ==
    IF op \in {"shutdown", "all_active_jobs"} THEN MapJobs
    ELSE IF ljobs[u] # 0 THEN {ljobs[u]} ELSE {}

\* The entries an operation takes out of the map before it locks them:
\* jobs.remove(&user_id), jobs.drain().
removes(op, u) ==
    CASE op = "shutdown_job" -> {u}
      [] op = "shutdown" -> Users
      [] OTHER -> {}

\* The RunManager has no job.
LockInit ==
    /\ lop = NoOp
    /\ lslot = [j \in JobIds |-> "free"]
    /\ ljobs = [u \in Users |-> 0]
    /\ lsome = [j \in JobIds |-> FALSE]
    /\ ltask = [j \in JobIds |-> "none"]
    /\ lnext = 1

\* No RunManager.
LockIdle ==
    /\ lop = NoOp
    /\ lslot = [j \in JobIds |-> "free"]
    /\ ljobs = [u \in Users |-> 0]
    /\ lsome = [j \in JobIds |-> FALSE]
    /\ ltask = [j \in JobIds |-> "none"]
    /\ lnext = 0

\* A caller has the manager mutex and calls an operation.
OpBegin ==
    /\ lnext > 0
    /\ lop.op = "none"
    /\ \E op \in LockOps, u \in Users :
          /\ op = "request_job" => lnext <= MaxJobs
          /\ \E order \in OrdersOf(slots_of(op, u)) :
                lop' = [op |-> op, user |-> u, pc |-> "in_mgr", left |-> order,
                        found |-> FALSE]
          /\ ljobs' = [v \in Users |-> IF v \in removes(op, u) THEN 0 ELSE ljobs[v]]
    /\ UNCHANGED <<lslot, lsome, ltask, lnext>>

\* handle.lock().await in an operation: it gets the lock once it is free.
OpSlotLock ==
    /\ lop.pc = "in_mgr"
    /\ lop.left # <<>>
    /\ lslot[Head(lop.left)] = "free"
    /\ lslot' = [lslot EXCEPT ![Head(lop.left)] = "op"]
    /\ lop' = [lop EXCEPT !.pc = "in_slot"]
    /\ UNCHANGED <<ljobs, lsome, ltask, lnext>>

\* The operation looks at the handle (is_some, as_ref) and its guard is
\* dropped; nothing is awaited while the guard lives.
OpSlotUnlock ==
    /\ lop.pc = "in_slot"
    /\ lslot' = [lslot EXCEPT ![Head(lop.left)] = "free"]
    /\ lop' = [lop EXCEPT !.pc = "in_mgr", !.left = Tail(@),
                          !.found = lsome[Head(lop.left)]]
    /\ UNCHANGED <<ljobs, lsome, ltask, lnext>>

\* The operation returns and its caller drops the manager mutex.  A
\* request_job that found no live handle has gone through
\* create_job_request and start_job: a new slot, a new task.
OpEnd ==
    /\ lop.pc = "in_mgr"
    /\ lop.left = <<>>
    /\ lop' = NoOp
    /\ \E accepted \in BOOLEAN :
          IF lop.op = "request_job" /\ ~lop.found /\ accepted
          THEN /\ ljobs' = [ljobs EXCEPT ![lop.user] = lnext]
               /\ lsome' = [lsome EXCEPT ![lnext] = TRUE]
               /\ ltask' = [ltask EXCEPT ![lnext] = "running"]
               /\ lnext' = lnext + 1
          ELSE UNCHANGED <<ljobs, lsome, ltask, lnext>>
    /\ UNCHANGED lslot

\* The task: run_job has returned and the state is persisted (save_run
\* locks the leaderboard manager, not the RunManager); the task asks for
\* the lock of its slot.
TaskFinishes(j) ==
    /\ ltask[j] = "running"
    /\ ltask' = [ltask EXCEPT ![j] = "want_slot"]
    /\ UNCHANGED <<lop, lslot, ljobs, lsome, lnext>>

\* handle.lock().await in the task.
TaskLock(j) ==
    /\ ltask[j] = "want_slot"
    /\ lslot[j] = "free"
    /\ lslot' = [lslot EXCEPT ![j] = "task"]
    /\ ltask' = [ltask EXCEPT ![j] = "in_slot"]
    /\ UNCHANGED <<lop, ljobs, lsome, lnext>>

\* A task that needs the manager mutex while it holds the lock of its slot.
TaskTake_under_manager(j) ==
    /\ ltask[j] = "in_slot"
    /\ lop.op = "none"
    /\ lsome' = [lsome EXCEPT ![j] = FALSE]
    /\ lslot' = [lslot EXCEPT ![j] = "free"]
    /\ ltask' = [ltask EXCEPT ![j] = "done"]
    /\ UNCHANGED <<lop, ljobs, lnext>>

\* .take() and the end of the statement: the guard is dropped.
TaskTake(j) ==
    /\ ltask[j] = "in_slot"
    /\ lsome' = [lsome EXCEPT ![j] = FALSE]
    /\ lslot' = [lslot EXCEPT ![j] = "free"]
    /\ ltask' = [ltask EXCEPT ![j] = "done"]
    /\ UNCHANGED <<lop, ljobs, lnext>>

LockNext ==
    \/ OpBegin /\ UNCHANGED restOfLock
    \/ OpSlotLock /\ UNCHANGED restOfLock
    \/ OpSlotUnlock /\ UNCHANGED restOfLock
    \/ OpEnd /\ UNCHANGED restOfLock
    \/ \E j \in JobIds : TaskFinishes(j) /\ UNCHANGED restOfLock
    \/ \E j \in JobIds : TaskLock(j) /\ UNCHANGED restOfLock
    \/ \E j \in JobIds : TaskTake(j) /\ UNCHANGED restOfLock

\* ------------------------------------------------------------------------
\* Specifications
\* ------------------------------------------------------------------------

\* One job through Job::run and Worker::spawn; the manager stays idle.
SpecJobInit == JobInit /\ MgrInit /\ WkIdle /\ ProcIdle /\ SaveInit /\ StatIdle /\ CaseIdle /\ CgIdle
        /\ WaitIdle /\ RmIdle /\ PairIdle /\ NewIdle /\ IdIdle /\ LockIdle

SpecJob == SpecJobInit /\ [][JobNext]_vars

\* Idle job engine: a job that has returned.
JobIdle ==
    /\ jop = "Testing"
    /\ jstate = NoState
    /\ jpc = "exited"
    /\ ji = 1
    /\ chan = <<>>
    /\ wstate = NoState
    /\ wpc = "returned"
    /\ wret = NoState
    /\ jfold = NoFold
    /\ wforced = NoForce

\* The RunManager with its job tasks.
SpecMgrInit == MgrInit /\ JobIdle /\ WkIdle /\ ProcIdle /\ SaveInit /\ StatIdle /\ CaseIdle /\ CgIdle
        /\ WaitIdle /\ RmIdle /\ PairIdle /\ NewIdle /\ IdIdle /\ LockIdle

SpecMgr == SpecMgrInit /\ [][MgrNext]_vars

\* The same, with the runtime polling every spawned task whose run_job has
\* returned: the handle lock, pool.get() and save_run all return in the end.
SpecMgrFair ==
    /\ SpecMgrInit
    /\ [][MgrNext]_vars
    /\ WF_vars(TaskReleaseTesting /\ UNCHANGED restOfMgr)
    /\ WF_vars(TaskPersist /\ UNCHANGED restOfMgr)
    /\ WF_vars(TaskRelease /\ UNCHANGED restOfMgr)

\* One service-side Worker with its child processes.
SpecWorkerInit == WkInit /\ JobIdle /\ MgrInit /\ ProcIdle /\ SaveInit /\ StatIdle /\ CaseIdle /\ CgIdle
        /\ WaitIdle /\ RmIdle /\ PairIdle /\ NewIdle /\ IdIdle /\ LockIdle

SpecWorker == SpecWorkerInit /\ [][WkNext]_vars

\* The same, with the runtime at work: an armed sleep of wait_for elapses
\* and the select loop of _exec_cmd is polled when a branch is ready.
SpecWorkerFair ==
    /\ SpecWorkerInit
    /\ [][WkNext]_vars
    /\ WF_vars(HardTimeout /\ UNCHANGED <<kdirs, khigh, ktimeout>> /\ UNCHANGED restOfWk)
    /\ WF_vars(WaitFor /\ UNCHANGED <<kdirs, khigh, ktimeout>> /\ UNCHANGED restOfWk)

SpecProcInit == ProcInit /\ JobIdle /\ MgrInit /\ WkIdle /\ SaveInit /\ StatIdle /\ CaseIdle /\ CgIdle
        /\ WaitIdle /\ RmIdle /\ PairIdle /\ NewIdle /\ IdIdle /\ LockIdle

SpecProc == SpecProcInit /\ [][ProcNext]_vars

SpecSaveInit == SaveInit /\ JobIdle /\ MgrInit /\ WkIdle /\ ProcIdle /\ StatIdle /\ CaseIdle /\ CgIdle
        /\ WaitIdle /\ RmIdle /\ PairIdle /\ NewIdle /\ IdIdle /\ LockIdle

SpecSave == SpecSaveInit /\ [][SaveNext]_vars

\* One tracked run command of a Worker with the counters of its cgroup.
SpecStatInit ==
    StatInit /\ JobIdle /\ MgrInit /\ WkIdle /\ ProcIdle /\ SaveInit /\ CaseIdle /\ CgIdle
        /\ WaitIdle /\ RmIdle /\ PairIdle /\ NewIdle /\ IdIdle /\ LockIdle

SpecStat == SpecStatInit /\ [][StatNext]_vars

\* A test case is judged, edited and judged again.
SpecCaseInit ==
    CaseInit /\ JobIdle /\ MgrInit /\ WkIdle /\ ProcIdle /\ SaveInit /\ StatIdle /\ CgIdle
        /\ WaitIdle /\ RmIdle /\ PairIdle /\ NewIdle /\ IdIdle /\ LockIdle

SpecCase == SpecCaseInit /\ [][CaseNext]_vars

\* The service sets up its cgroups; Workers are made and dropped.
SpecCgInit ==
    CgInit /\ JobIdle /\ MgrInit /\ WkIdle /\ ProcIdle /\ SaveInit /\ StatIdle /\ CaseIdle
        /\ WaitIdle /\ RmIdle /\ PairIdle /\ NewIdle /\ IdIdle /\ LockIdle

SpecCg == SpecCgInit /\ [][CgNext]_vars

\* One Worker is made, runs commands and is finished, under the clock.
SpecWaitInit ==
    WaitInit /\ JobIdle /\ MgrInit /\ WkIdle /\ ProcIdle /\ SaveInit /\ StatIdle /\ CaseIdle
        /\ CgIdle /\ RmIdle /\ PairIdle /\ NewIdle /\ IdIdle /\ LockIdle

SpecWait == SpecWaitInit /\ [][WaitNext]_vars

\* One removal of a cgroup.  The removal is sequential code: each of its
\* steps is taken once it is reached (remove_dir, the write and the sleep
\* return).
SpecRmInit ==
    RmInit /\ JobIdle /\ MgrInit /\ WkIdle /\ ProcIdle /\ SaveInit /\ StatIdle /\ CaseIdle
        /\ CgIdle /\ WaitIdle /\ PairIdle /\ NewIdle /\ IdIdle /\ LockIdle

SpecRm ==
    /\ SpecRmInit
    /\ [][RmNext]_vars
    /\ WF_vars(RmExists /\ UNCHANGED restOfRm)
    /\ WF_vars(RmDir /\ UNCHANGED restOfRm)
    /\ WF_vars(RmKill /\ UNCHANGED restOfRm)
    /\ WF_vars(RmSleep /\ UNCHANGED restOfRm)

\* One Worker, its worker process and the program the process runs.
SpecPairInit ==
    PairInit /\ JobIdle /\ MgrInit /\ WkIdle /\ ProcIdle /\ SaveInit /\ StatIdle /\ CaseIdle
        /\ CgIdle /\ WaitIdle /\ RmIdle /\ NewIdle /\ IdIdle /\ LockIdle

SpecPair == SpecPairInit /\ [][PairNext]_vars

\* One call of Worker::new.
SpecNewInit ==
    NewInit /\ JobIdle /\ MgrInit /\ WkIdle /\ ProcIdle /\ SaveInit /\ StatIdle /\ CaseIdle
        /\ CgIdle /\ WaitIdle /\ RmIdle /\ PairIdle /\ IdIdle /\ LockIdle

SpecNew == SpecNewInit /\ [][NewNext]_vars

\* One call of get_uid_gid_maps.
SpecIdInit ==
    IdInit /\ JobIdle /\ MgrInit /\ WkIdle /\ ProcIdle /\ SaveInit /\ StatIdle /\ CaseIdle
        /\ CgIdle /\ WaitIdle /\ RmIdle /\ PairIdle /\ NewIdle /\ LockIdle

SpecId == SpecIdInit /\ [][IdNext]_vars

\* The locks of the RunManager.  An operation, once called, runs on; the
\* tokio Mutex hands the lock to its waiters in the order they asked, so a
\* task that keeps asking for the lock of its slot gets it.
SpecLockInit ==
    LockInit /\ JobIdle /\ MgrInit /\ WkIdle /\ ProcIdle /\ SaveInit /\ StatIdle /\ CaseIdle
        /\ CgIdle /\ WaitIdle /\ RmIdle /\ PairIdle /\ NewIdle /\ IdIdle

SpecLock ==
    /\ SpecLockInit
    /\ [][LockNext]_vars
    /\ WF_vars(OpSlotLock /\ UNCHANGED restOfLock)
    /\ WF_vars(OpSlotUnlock /\ UNCHANGED restOfLock)
    /\ WF_vars(OpEnd /\ UNCHANGED restOfLock)
    /\ \A j \in JobIds : SF_vars(TaskLock(j) /\ UNCHANGED restOfLock)
    /\ \A j \in JobIds : WF_vars(TaskTake(j) /\ UNCHANGED restOfLock)

\* ------------------------------------------------------------------------
\* Properties of the job engine (SpecJob)
\* ------------------------------------------------------------------------

\* The JobStates of the run: the job's, the service's copy, the returned one.
JobStates == {jstate, wstate, wret}

NumRunning(s) == Cardinality({i \in 1..Len(s.cases) : s.cases[i].tag = "Running"})

\* start_first has acted on s: no state after it is all Pending again.
Started(s) == s # new_judging(Len(s.cases))

\* C1: in every Judging JobState reached by start_first and then the
\* complete_case / force_fail calls of the run, at most one case is Running,
\* and while the state is started and not complete exactly one case is.
Inv_C1_OneRunning ==
    \A s \in JobStates :
        s.type = "Judging" =>
            /\ NumRunning(s) <= 1
            /\ (Started(s) /\ ~s.complete) => NumRunning(s) = 1

\* A later case is Running after complete_case passed the ones before it.
Wit_C1_LaterCaseRunning ==
    /\ wstate.type = "Judging"
    /\ Len(wstate.cases) >= 3
    /\ wstate.cases[1].tag = "Passed"
    /\ wstate.cases[2].tag = "Passed"
    /\ wstate.cases[3].tag = "Running"
    /\ ~wstate.complete

\* Passed*, then at most one Failed, then NotRun* (only after a Failed).
FinalShape(cases) ==
    \E k \in 0..Len(cases) :
        /\ \A i \in 1..k : cases[i].tag = "Passed"
        /\ \/ k = Len(cases)
           \/ /\ cases[k + 1].tag = "Failed"
              /\ \A i \in (k + 2)..Len(cases) : cases[i].tag = "NotRun"

\* C2: a Judging JobState with complete = true is Passed*, at most one
\* Failed, NotRun*, with no Pending or Running case and NotRun only after a
\* Failed case.
Inv_C2_FinalShape ==
    \A s \in JobStates :
        (s.type = "Judging" /\ s.complete) => FinalShape(s.cases)

\* A job that failed its second case of three has returned.
Wit_C2_FailedMiddle ==
    /\ wret # NoState
    /\ wret.type = "Judging"
    /\ wret.complete
    /\ Len(wret.cases) = 3
    /\ wret.cases[1].tag = "Passed"
    /\ wret.cases[2].tag = "Failed"
    /\ wret.cases[3].tag = "NotRun"
    /\ jpc = "exited"

PenaltyKinds == {"CpuTimeExceeded", "MemoryLimitExceeded", "Logic", "Runtime"}

Claim_C7_ForcedFailNoPenalty ==
    (wforced # NoForce /\ wforced.active > 0) =>
        IF wstate.type = "Judging"
        THEN wstate.cases[wforced.active] = Failed(FALSE, wforced.msg)
        ELSE wstate.status = Failed(FALSE, wforced.msg)

NumPassed(s) == Cardinality({i \in 1..Len(s.cases) : s.cases[i].tag = "Passed"})

\* The final state the service returned is a Judging state.
ReturnedJudging == wret # NoState /\ wret.type = "Judging"

\* C20: the JudgeRun made from the final Judging state a job returned has
\* total_cases = number of cases, amount_run = number of Passed cases,
\* error = the message of the Failed case if there is one (None otherwise),
\* and success() holds iff every case is Passed.
Inv_C20_JudgeRun ==
    ReturnedJudging =>
        LET run == from_job_state(wret, 0) IN
        /\ run.total_cases = Len(wret.cases)
        /\ run.amount_run = NumPassed(wret)
        /\ \A i \in 1..Len(wret.cases) :
              wret.cases[i].tag = "Failed" => run.error = SomeStr(wret.cases[i].msg)
        /\ (\A i \in 1..Len(wret.cases) : wret.cases[i].tag # "Failed") =>
              run.error = NoneStr
        /\ success(run) <=> \A i \in 1..Len(wret.cases) : wret.cases[i].tag = "Passed"

\* C20 witness: a returned state with a Passed case before its Failed one.
Wit_C20_PassedThenFailed ==
    /\ ReturnedJudging
    /\ Len(wret.cases) >= 2
    /\ wret.cases[1].tag = "Passed"
    /\ wret.cases[2].tag = "Failed"
    /\ from_job_state(wret, 0).amount_run = 1

\* The status Job::run stores for outcome e of a job with operation op: the
\* compile step is the only source of Compilation, the run step of the rest.
FoldStatus(op, e) ==
    IF e.kind = "Compilation" THEN CompileFailStatus(op, e)
    ELSE IF op = "Testing" THEN TestFailStatus(e)
    ELSE StatusFromCaseError(e)

\* The Failed statuses held by a JobState.
FailedStatuses(s) ==
    IF s.type = "Judging"
    THEN {s.cases[i] : i \in {j \in 1..Len(s.cases) : s.cases[j].tag = "Failed"}}
    ELSE IF s.status.tag = "Failed" THEN {s.status} ELSE {}

CasesOf(s) == IF s.type = "Judging" THEN s.cases ELSE <<>>

Terminal == {"Passed", "Failed", "NotRun"}

\* From s to t, a case after the first becomes Running only together with
\* its predecessor becoming Passed, and never after a Failed case.
StartsInOrder(s, t) ==
    \A i \in 1..Len(CasesOf(s)) :
        (s.cases[i].tag # "Running" /\ t.cases[i].tag = "Running") =>
            /\ i > 1 => (s.cases[i - 1].tag = "Running" /\ t.cases[i - 1].tag = "Passed")
            /\ \A j \in 1..(i - 1) : s.cases[j].tag # "Failed"

\* From s to t, a case that is Passed, Failed or NotRun stays as it is.
TerminalKept(s, t) ==
    \A i \in 1..Len(CasesOf(s)) :
        s.cases[i].tag \in Terminal => t.cases[i] = s.cases[i]

\* C31: in a Judging job case i+1 becomes Running only in the step in which
\* case i becomes Passed, no case after a Failed one becomes Running, and a
\* case that is Passed, Failed or NotRun keeps its status in every later
\* state of the job, also after a force_fail that finds no Running case.
Claim_C31_SequentialCases ==
    [][/\ StartsInOrder(jstate, jstate') /\ TerminalKept(jstate, jstate')
       /\ StartsInOrder(wstate, wstate') /\ TerminalKept(wstate, wstate')]_vars

\* What holds of the code: the order of the starts, in the job's state and
\* in the service's copy; the job's own state keeps every finished case; the
\* service's copy keeps them unless force_fail finds no Running case.
Aux_C31_OrderAndJobState ==
    [][/\ StartsInOrder(jstate, jstate') /\ TerminalKept(jstate, jstate')
       /\ StartsInOrder(wstate, wstate')
       /\ (wforced' = wforced \/ wforced'.active # 0) => TerminalKept(wstate, wstate')]_vars

\* ------------------------------------------------------------------------
\* Properties of the RunManager (SpecMgr)
\* ------------------------------------------------------------------------

\* Job j is in flight: admitted, and its background task has not returned.
InFlight(j) == mtasks[j].pc \in {"running", "returned", "persisted"}

InFlightOf(u) == {j \in JobIds : InFlight(j) /\ mtasks[j].user = u}

\* C3: at any time at most one job of a user is in flight.
Claim_C3_OneInFlight ==
    \A u \in Users : Cardinality(InFlightOf(u)) <= 1

\* C4: a rejected request_job (live slot, program too long, unknown
\* language) returns Err and changes no slot, spawns no task and publishes
\* no event; an accepted one allocates the user's slot, spawns exactly one
\* task and publishes exactly one job-started event.
Prop_C4_RequestJob ==
    [][ mlast'.seq # mlast.seq =>
          LET req == mlast'.req IN
          /\ (mlast'.res # "Ok") <=>
                \/ LiveSlot(req.user)
                \/ req.len > MaxProgramLength
                \/ ~req.lang
          /\ (mlast'.res # "Ok") =>
                /\ mjobs' = mjobs
                /\ mtasks' = mtasks
                /\ mevents' = mevents
          /\ (mlast'.res = "Ok") =>
                \E j \in JobIds :
                    /\ mtasks[j].pc = "none"
                    /\ mtasks'[j].pc = "running"
                    /\ mtasks'[j].slot
                    /\ mtasks'[j].user = req.user
                    /\ \A k \in JobIds \ {j} : mtasks'[k] = mtasks[k]
                    /\ mjobs' = [mjobs EXCEPT ![req.user] = j]
                    /\ mevents' = Append(mevents, <<req.user, req.problem, j>>)
      ]_vars

\* A request was rejected for its length alone after an earlier one of the
\* same user had been admitted and had finished.
Wit_C4_RejectedAfterAccepted ==
    /\ mlast.res = "Program too long"
    /\ Len(mevents) = 1
    /\ mevents[1][1] = mlast.req.user
    /\ mtasks[mevents[1][3]].pc = "done"

\* C5 as stated: every admitted job, Judging or Testing, has its JudgeRun
\* inserted exactly once, after the Job returned.
Claim_C5_InsertExactlyOnce ==
    \A j \in JobIds :
        /\ mtasks[j].pc = "done" => mtasks[j].inserts = 1
        /\ mtasks[j].inserts > 0 => mtasks[j].pc \in {"persisted", "done"}

\* C5, amended: no job's JudgeRun is inserted more than once or before the
\* Job has returned; a Judging job whose callback gets a connection and
\* finds the contest has it inserted exactly once; a Testing job, and a job
\* whose connection or contest lookup fails, never.
Inv_C5_InsertAtMostOnce ==
    \A j \in JobIds :
        /\ mtasks[j].inserts <= 1
        /\ mtasks[j].inserts > 0 => mtasks[j].pc \in {"persisted", "done"}
        /\ mtasks[j].pc \in {"persisted", "done"} =>
              mtasks[j].inserts =
                 (IF mtasks[j].op = "Judging" /\ mtasks[j].db \in {"insert_err", "ok"}
                  THEN 1 ELSE 0)

\* A Judging job and a Testing job have both finished, the first with its
\* JudgeRun inserted.
Wit_C5_BothOpsDone ==
    \E j, k \in JobIds :
        /\ mtasks[j].pc = "done" /\ mtasks[j].op = "Judging" /\ mtasks[j].inserts = 1
        /\ mtasks[k].pc = "done" /\ mtasks[k].op = "Testing"

\* C22: a Testing job is never scored: its task writes no completion record
\* and sends no leaderboard notification (and inserts no run), at any point
\* of its life and whatever it returned.
Inv_C22_TestingNotScored ==
    \A j \in JobIds :
        mtasks[j].op = "Testing" =>
            /\ mtasks[j].scored = "none"
            /\ mtasks[j].inserts = 0
            /\ mtasks[j].pc \notin {"persisted"}

\* C22 witness: a Testing job has finished unscored next to a Judging job
\* that was scored and notified to the leaderboard.
Wit_C22_TestingBesideScored ==
    \E j, k \in JobIds :
        /\ mtasks[j].op = "Testing" /\ mtasks[j].pc = "done" /\ mtasks[j].scored = "none"
        /\ mtasks[k].op = "Judging" /\ mtasks[k].pc = "done" /\ mtasks[k].scored = "notified"

\* C24: for a user without a live slot and with a known language,
\* request_job admits a program of exactly max_program_length bytes (the
\* slot is taken and a task spawned) and rejects one of max_program_length
\* + 1 bytes as too long, taking no slot and spawning no task.
Prop_C24_LengthBoundary ==
    [][ (mlast'.seq # mlast.seq /\ ~LiveSlot(mlast'.req.user) /\ mlast'.req.lang) =>
          /\ mlast'.req.len = MaxProgramLength =>
                /\ mlast'.res = "Ok"
                /\ mjobs'[mlast'.req.user] # 0
                /\ mtasks'[mjobs'[mlast'.req.user]].slot
                /\ mtasks'[mjobs'[mlast'.req.user]].pc = "running"
          /\ mlast'.req.len = MaxProgramLength + 1 =>
                /\ mlast'.res = "Program too long"
                /\ mjobs' = mjobs
                /\ mtasks' = mtasks
      ]_vars

\* C24 witness: a program of exactly max_program_length bytes has just been
\* admitted, after a request that was turned away for its length alone
\* (it used up an id and published no event).
Wit_C24_AdmittedAtLimit ==
    /\ mlast.req.len = MaxProgramLength
    /\ mlast.res = "Ok"
    /\ mid = 3
    /\ Len(mevents) = 1

\* A request_job input that only a live slot can reject.
Admissible(req) == req.lang /\ req.len <= MaxProgramLength

\* A finished task holds no handle, and request_job admits every admissible
\* request of a user whose last job has finished or who has no entry.
Inv_C23_FinishedAdmits ==
    /\ \A j \in JobIds : mtasks[j].pc = "done" => ~mtasks[j].slot
    /\ \A u \in Users :
          (mjobs[u] = 0 \/ mtasks[mjobs[u]].pc = "done") =>
              \A req \in Requests :
                  (req.user = u /\ Admissible(req)) => request_job(req).res = "Ok"

\* C23: once run_job has returned to the spawned task (with a Judging or a
\* Testing state, whatever the outcome, and whatever the database then does
\* to the callback) the task takes the handle: the user's slot becomes empty
\* and every later admissible request_job of that user is admitted.
Prop_C23_SlotReleased ==
    /\ []Inv_C23_FinishedAdmits
    /\ \A j \in JobIds :
          (mtasks[j].pc = "returned") ~> (mtasks[j].pc = "done" /\ ~mtasks[j].slot)

\* C23 witness: a Judging job whose callback got no database connection
\* released its slot without being cancelled, and a later request of the
\* same user was admitted.
Wit_C23_AdmittedAfterDbError ==
    \E j, k \in JobIds :
        /\ j < k
        /\ mtasks[j].pc = "done" /\ mtasks[j].db = "pool_err" /\ ~mtasks[j].cancelled
        /\ mtasks[k].pc = "running" /\ mtasks[k].user = mtasks[j].user
        /\ mjobs[mtasks[k].user] = k
        /\ mlast.res = "Ok" /\ mlast.req.user = mtasks[k].user

\* shutdown_job(a): only the map entry of a goes.
ShutdownJobStep(a) ==
    /\ mjobs[a] # 0
    /\ mjobs' = [mjobs EXCEPT ![a] = 0]
    /\ mlast' = mlast

\* A step of the task of a job of user a: it returns (failed, cancelled by
\* itself or complete), persists, or releases its handle.
TaskStepOf(a) ==
    \E j \in JobIds :
        /\ mtasks[j].user = a
        /\ mtasks[j].pc # "none"
        /\ mtasks'[j].pc # mtasks[j].pc

\* The map entry of user b and the handle, token and task of every job of b
\* are what they were.
UserUntouched(b) ==
    /\ mjobs'[b] = mjobs[b]
    /\ \A j \in JobIds : mtasks[j].user = b => mtasks'[j] = mtasks[j]

Step_C34_OtherUser ==
    \A a, b \in Users :
        (a # b /\ (ShutdownJobStep(a) \/ TaskStepOf(a))) => UserUntouched(b)

\* Every job has an id of its own (ids not yet drawn name no task), and the
\* names made from two ids differ whatever the clock gives.
Inv_C34_OwnNames ==
    /\ \A j \in JobIds : j >= mid => mtasks[j] = NoTask
    /\ \A i, j \in JobIds :
          (i # j /\ mtasks[i].pc # "none" /\ mtasks[j].pc # "none") =>
              \A n1, n2 \in Nanos : make_temp_name(i, n1) # make_temp_name(j, n2)

\* C34: jobs of different users are independent: shutdown_job(A) and the
\* return (failure, self-cancellation, completion), persistence and release
\* of A's job leave B's map entry, handle, token and task as they are; and
\* the temp directory and the cgroup of two jobs never have the same name.
Prop_C34_Independent == [][Step_C34_OtherUser]_vars /\ []Inv_C34_OwnNames

\* C34 witness: u1's job cancelled its own token, u1's map entry was then
\* removed by shutdown_job and the job has ended, while u2's job, admitted
\* in between, still holds its slot with a token that is not cancelled.
Wit_C34_OneEndsOtherRuns ==
    /\ mtasks[1].user = "u1" /\ mtasks[1].pc = "done" /\ mtasks[1].cancelled
    /\ mjobs["u1"] = 0
    /\ mtasks[2].user = "u2" /\ mtasks[2].pc = "running"
    /\ mtasks[2].slot /\ ~mtasks[2].cancelled
    /\ mjobs["u2"] = 2

\* The task of job j releases its handle.
ReleaseStep(j) == mtasks[j].pc \in {"returned", "persisted"} /\ mtasks'[j].pc = "done"

\* C36: when the task of an older job of a user releases its handle after a
\* newer job of that user has been admitted, the newer job's handle
\* (problem, receiver, token), its task and the user's map entry are left
\* as they are: the handle is not emptied, not replaced and its token is
\* not cancelled.
Prop_C36_OlderRelease ==
    [][\A j \in JobIds :
          (ReleaseStep(j) /\ Superseded(j)) =>
              /\ mjobs' = mjobs
              /\ mtasks'[mjobs[mtasks[j].user]] = mtasks[mjobs[mtasks[j].user]]
              /\ mtasks'[j].slot = FALSE]_vars

\* C36 witness: shutdown_job removed the entry of job 1 and cancelled its
\* token, job 2 of the same user was admitted, and job 1 then persisted and
\* released its handle; job 2 still runs with its handle and a token that
\* is not cancelled.
Wit_C36_NewerKeepsSlot ==
    /\ mtasks[1].pc = "done" /\ mtasks[1].late /\ mtasks[1].cancelled
    /\ mtasks[1].db # "none"
    /\ mtasks[2].pc = "running" /\ mtasks[2].user = mtasks[1].user
    /\ mtasks[2].slot /\ ~mtasks[2].cancelled
    /\ mjobs[mtasks[1].user] = 2

\* ------------------------------------------------------------------------
\* Properties of the service-side Worker (SpecWorker)
\* ------------------------------------------------------------------------

\* A command has returned to the Worker's caller.
CmdDone == kpc = "ready" /\ kcmd.n > 0 /\ kres.kind # "None"

\* C8: if the token is cancelled while the Worker awaits the reply to a
\* RunCmd, that command returns CaseError::Cancelled, no further RunCmd is
\* sent, and the child and the grandchild are dead when the Worker is
\* released.
Claim_C8_CancelWhileAwaiting ==
    /\ kobs.cancelRes # "None" => kobs.cancelRes = "Cancelled"
    /\ ~kobs.lateSend
    /\ kpc = "released" => (kchild = "reaped" /\ ksub = "dead")

\* C8, amended: a command during whose wait the token is cancelled ends by
\* a branch of wait_for that was ready when it was polled, the cancellation
\* branch among them; it returns Cancelled, without killing the worker,
\* whenever that branch is taken, which is certain only if no reply and no
\* timeout are ready too; a RunCmd is sent after the cancellation only if
\* the command it interrupted returned Ok; the child and the grandchild are
\* dead when the Worker is released.
Inv_C8_CancelledBranch ==
    /\ (kobs.cancelAt > 0 /\ kobs.cancelAt = kcmd.n /\ kpc # "awaiting") =>
          /\ "cancelled" \in kobs.ready
          /\ kobs.branch \in kobs.ready
    /\ (kobs.branch = "cancelled" /\ kpc = "inner_done") =>
          kinner = Broke(Err("Cancelled", ""))
    /\ (kobs.branch = "cancelled" /\ CmdDone) =>
          /\ kres = Err("Cancelled", "")
          /\ klog = <<"RunCmd", "return">>
    /\ (kobs.cancelRes = "Cancelled") => ~kobs.lateSend
    /\ kobs.lateSend => kobs.cancelRes = "Ok"
    /\ kpc = "released" => (kchild = "reaped" /\ ksub = "dead")

\* The token was cancelled while the Worker awaited a reply, nothing else
\* was ready, the command returned Cancelled and the Worker was released.
Wit_C8_CancelledReleased ==
    /\ kobs.cancelAt = kcmd.n
    /\ kobs.ready = {"cancelled"}
    /\ kobs.branch = "cancelled"
    /\ kres = Err("Cancelled", "")
    /\ kpc = "released"

KillStep(x) == x \in {"cancel", "kill_sub", "kill", "wait", "return"}

\* C9: a command that ends with HardTimeLimitExceeded, CpuTimeExceeded,
\* MemoryLimitExceeded or a Judge error has, in this order, cancelled the
\* token, killed the grandchild, killed the child, awaited it and returned;
\* one that ends with Logic, Runtime, Compilation or Cancelled has killed
\* nothing.
Claim_C9_KillOrder ==
    (CmdDone /\ kres.kind # "Ok") =>
        IF should_kill_worker(kres)
        THEN SelectSeq(klog, KillStep) = <<"cancel", "kill_sub", "kill", "wait", "return">>
        ELSE \A i \in 1..Len(klog) : klog[i] \notin {"kill_sub", "kill"}

\* The worker's reply to the last command was CmdComplete Success.
SuccessReply == CmdDone /\ kobs.branch = "reply" /\ kobs.reply.msg = "Success"

\* C10: when the reply to a run command is CmdComplete Success the result
\* is Ok(stdout); a per-case run can then only fail with Logic, exactly
\* when check_output reports a mismatch.
Claim_C10_SuccessIsOk ==
    (SuccessReply /\ kcmd.kind # "compile") =>
        /\ kcmd.kind = "run_cmd" => kres = CaseOk(kobs.reply.out)
        /\ kcmd.kind = "run_case" =>
              /\ kres \in {CaseOk(kobs.reply.out), Err("Logic", "")}
              /\ (kres.kind = "Logic") <=> (kobs.chk = "mismatch")

\* C10, amended: after a CmdComplete Success a command whose stats are not
\* tracked, or are within the limits, gives Ok(stdout); with tracked stats
\* it ends with CpuTimeExceeded or MemoryLimitExceeded when the delta broke
\* the limit, and with a Judge error when the cgroup cannot be read.  A
\* per-case run that got Ok(stdout) fails with Logic exactly when
\* check_output reports a mismatch, and with Judge when check_output fails.
Inv_C10_SuccessReply ==
    SuccessReply =>
        /\ kobs.stat \in {"stats_err", "peak_err"} => kres.kind = "Judge"
        /\ kobs.stat = "cpu" => kres.kind = "CpuTimeExceeded"
        /\ kobs.stat = "mem" => kres.kind = "MemoryLimitExceeded"
        /\ kobs.stat = "ok" =>
              CASE kcmd.kind = "compile" -> kres = CaseOk("")
                [] kcmd.kind = "run_cmd" -> kres = CaseOk(kobs.reply.out)
                [] OTHER ->
                     CASE kobs.chk = "match" -> kres = CaseOk(kobs.reply.out)
                       [] kobs.chk = "mismatch" -> kres = Err("Logic", "")
                       [] OTHER -> kres.kind = "Judge"
        /\ (kres.kind = "Logic") <=>
              (kcmd.kind = "run_case" /\ kobs.stat = "ok" /\ kobs.chk = "mismatch")

\* A per-case run got Success within the limits and check_output reported a
\* mismatch.
Wit_C10_Mismatch ==
    /\ SuccessReply
    /\ kcmd.kind = "run_case"
    /\ kobs.stat = "ok"
    /\ kobs.chk = "mismatch"
    /\ kres = Err("Logic", "")

\* Lines wait_for_new_message cannot hand to _exec_cmd as the reply to a
\* command.
Unacceptable == {"Garbled", "Eof", "InternalError", "Cancelled", "TimedOut", "CaseError"}

ReadUnacceptable == kobs.branch = "reply" /\ kobs.reply.msg \in Unacceptable

\* C16: when the line the service read for a command is unparseable, an end
\* of stream, an InternalError or a wire copy of Cancelled, TimedOut or
\* CaseError, _exec_cmd gives a Judge error, and so does the command: never
\* Ok, Cancelled, HardTimeLimitExceeded or an error that gives a penalty.
Inv_C16_UnacceptableIsJudge ==
    (ReadUnacceptable /\ kpc \in {"inner_done", "ready", "released"}) =>
        /\ kinner.res.kind = "Judge"
        /\ kpc # "inner_done" =>
              /\ kres.kind = "Judge"
              /\ ~gives_penalty(kres)

\* C16 witness: a wire copy of Cancelled was read while the token was not
\* cancelled, and the command returned.
Wit_C16_WireCancelled ==
    /\ kobs.branch = "reply"
    /\ kobs.reply.msg = "Cancelled"
    /\ ~ktoken
    /\ kpc = "ready"
    /\ kres.kind = "Judge"

\* The last attempt to remove the cgroup directory succeeded, or none was
\* needed.
RmdirSucceeded == \A i \in 1..Len(klog) :
    klog[i] = "rm_cgroup_err" => \E j \in (i + 1)..Len(klog) : klog[j] = "rm_cgroup"

\* C17: once the Worker has been released, by finish or by drop, its temp
\* directory does not exist, the child and the grandchild do not run and,
\* if rmdir succeeded within its retries, the cgroup directory is gone.
Claim_C17_NothingLeft ==
    kpc = "released" =>
        /\ ~kdirs.tmp
        /\ kchild = "reaped" /\ ksub = "dead"
        /\ RmdirSucceeded => ~kdirs.cgroup

\* The part of C17 that holds: the processes and, under the proviso, the
\* cgroup.
Aux_C17_TreeAndCgroup ==
    kpc = "released" =>
        /\ kchild = "reaped" /\ ksub = "dead"
        /\ RmdirSucceeded => ~kdirs.cgroup
        /\ kdirs.tmp => \E i \in 1..Len(klog) : klog[i] = "rm_tmp_err"

WorkerFinished == kpc = "released" /\ klog # <<>> /\ klog[1] = "finish"

IsRmTmp(x) == x \in {"rm_tmp", "rm_tmp_err"}

IsRmCgroup(x) == x \in {"rm_cgroup", "rm_cgroup_err"}

\* C18: finish sends Stop, waits for the child or kills the tree, then
\* removes the cgroup and only after that the temp directory: in the record
\* of a finished Worker every removal of the temp directory comes after a
\* removal of the cgroup, and both come after Stop and the wait or kill.
Claim_C18_FinishOrder ==
    WorkerFinished =>
        \A i \in 1..Len(klog) :
            /\ IsRmTmp(klog[i]) => \E j \in 1..(i - 1) : IsRmCgroup(klog[j])
            /\ IsRmCgroup(klog[i]) =>
                  \A j \in (i + 1)..Len(klog) : klog[j] \notin {"Stop", "wait", "kill"}

\* The order finish and the drop that follows it do keep: Stop first, then
\* the wait or the kill, then the temp directory, then the cgroup.
Aux_C18_CodeOrder ==
    WorkerFinished =>
        \A i \in 1..Len(klog) :
            /\ IsRmTmp(klog[i]) =>
                  /\ \A j \in 1..(i - 1) : ~IsRmCgroup(klog[j])
                  /\ \A j \in (i + 1)..Len(klog) : klog[j] \notin {"Stop", "wait", "kill"}
            /\ klog[i] = "Stop" => i = 2

\* With hard_timeout_user_secs = 0 the sleep of a command's wait never
\* elapses and no wait or command ends with the hard timeout: a wait ends by
\* the worker's line or by cancellation (or is given up by the stat poll).
\* With a value that is not 0, a wait that ended on the timeout branch gave
\* HardTimeLimitExceeded, and a wait with nothing else ready took it.
Inv_C27_ZeroDisables ==
    /\ ktimeout = 0 =>
          /\ ~ktimer
          /\ ~ENABLED HardTimeout
          /\ "timeout" \notin kobs.ready
          /\ kobs.branch \in {"none", "reply", "cancelled", "poll"}
          /\ kinner.res.kind # "HardTimeLimitExceeded"
          /\ kres.kind # "HardTimeLimitExceeded"
    /\ (kpc = "inner_done" /\ kobs.branch = "timeout") =>
          kinner = Broke(Err("HardTimeLimitExceeded", ""))
    /\ (kpc = "inner_done" /\ kobs.ready = {"timeout"} /\ kobs.branch # "poll") =>
          kobs.branch = "timeout"

\* The same for hard_timeout_internal_secs and the two waits of Worker::init
\* (SpecProc): with 0 no wait sees the timeout elapse, and a Worker::new that
\* failed without cancellation had read a line of the worker.
Inv_C27_InternalZero ==
    senv.secs = 0 =>
        /\ ~senv.timer
        /\ ~ENABLED SvcTimeout
        /\ "timeout" \notin InitBranches
        /\ (spc = "failed" /\ ppc # "exited" /\ ~senv.cancel /\ senv.mapped # "false") => sread > 0

SoftLimitKinds == {"CpuTimeExceeded", "MemoryLimitExceeded"}

\* While the compile command is the Worker's current command: its stats are
\* not tracked, no poll of the cgroup can run or has run, no stats were read
\* at its completion, neither _exec_cmd nor compile() has returned a soft
\* limit error, and memory.high is untouched when compile is the first
\* command.
Inv_C26_CompileUntracked ==
    kcmd.kind = "compile" =>
        /\ ~kcmd.track
        /\ ~ENABLED StatPoll
        /\ kobs.branch # "poll"
        /\ kobs.stat = "ok"
        /\ kinner.res.kind \notin SoftLimitKinds
        /\ kres.kind \notin SoftLimitKinds
        /\ kcmd.n = 1 => khigh = "max"

\* memory.high is written only by the step that starts a run command.
Step_C26_HighSetByRun ==
    [][khigh' # khigh =>
          /\ kcmd'.n = kcmd.n + 1
          /\ kcmd'.kind \in {"run_cmd", "run_case"}
          /\ khigh' = "ceiling"]_vars

\* C26: soft limits apply only to run steps: the compile step never ends
\* with CpuTimeExceeded or MemoryLimitExceeded, the cgroup is not polled
\* during it, and memory.high is set to the problem's ceiling only when a
\* run command starts, so not before the compile command has finished.
Prop_C26_SoftLimitsRunOnly == []Inv_C26_CompileUntracked /\ Step_C26_HighSetByRun

\* C26 witness: the compile command, the Worker's first, has succeeded
\* with memory.high still as created.
Wit_C26_CompiledUnlimited ==
    /\ kcmd.kind = "compile"
    /\ kcmd.n = 1
    /\ kpc = "ready"
    /\ kres.kind = "Ok"
    /\ khigh = "max"

\* ------------------------------------------------------------------------
\* Properties of the worker process and the handshake (SpecProc)
\* ------------------------------------------------------------------------

IsPrefix(a, b) ==
    /\ Len(a) <= Len(b)
    /\ \A i \in 1..Len(a) : a[i] = b[i]

Sent(t) == \E i \in 1..Len(pout) : pout[i].t = t

LastOut == pout[Len(pout)]

\* The order of the isolation steps as the contract lists it: unshare and
\* fork, id-map confirmation, root, mount root, environment and bind
\* mounts, chroot, home, runner uid/gid, hardening, seccomp.
ContractOrder ==
    <<"unshare", "wait_for_id_mapping", "su_root", "mount_root",
      "setup_environment", "chroot", "setup_environment_post_chroot",
      "su_runner", "harden_process", "install_filters">>

\* C11: the isolation steps that have succeeded are always a prefix of the
\* contract's order; Ready is sent and a RunCmd is taken up only when all of
\* them have succeeded; a worker that ended on an error before the last
\* step has sent no Ready, has taken up no command and its last line is
\* InternalError.
Inv_C11_IsolationOrder ==
    /\ IsPrefix(pdone, ContractOrder)
    /\ Sent("Ready") => pdone = ContractOrder
    /\ pcmds # <<>> => pdone = ContractOrder /\ Sent("Ready")
    /\ (pexit.why = "error" /\ pdone # ContractOrder) =>
          /\ ~Sent("Ready")
          /\ pcmds = <<>>
          /\ LastOut.t = "InternalError"

\* C11 witness: a worker that went through every step and took up a
\* command.
Wit_C11_IsolatedThenRan ==
    /\ pdone = ContractOrder
    /\ Sent("Ready")
    /\ Len(pcmds) >= 1

HandshakeStage == {"await_request", "await_ready"}

\* C12: the handshake is InitialInfo, RequestUidGidMap, UidGidMapResult,
\* Ready in that order, each sent only after the one before it was read; a
\* worker is ready only after UidGidMapResult(true) was sent; after a failed
\* mapping UidGidMapResult(false) has been sent, Worker::new has failed and
\* the worker completes no isolation step beyond unshare and sends no Ready;
\* and a wait of the handshake that ends on anything but the expected message
\* (another message, a timeout, a cancellation) ends in the failure of
\* Worker::new.
Inv_C12_HandshakeOrder ==
    /\ pout # <<>> => pread >= 1 /\ pin[1].t = "InitialInfo"
    /\ senv.mapped # "none" =>
          /\ sread >= 1 /\ pout[1].t = "RequestUidGidMap"
          /\ pin[2].t = (IF senv.mapped = "true" THEN "UidGidMapResult_true"
                         ELSE "UidGidMapResult_false")
    /\ Sent("Ready") => pread >= 2 /\ pin[2].t = "UidGidMapResult_true"
    /\ spc = "ready" =>
          /\ senv.mapped = "true"
          /\ pout[2].t = "Ready"
          /\ sread >= 2
    /\ senv.mapped = "false" =>
          /\ spc = "failed"
          /\ Len(pdone) <= 1
          /\ ~Sent("Ready")

Step_C12_WaitEnds ==
    (spc \in HandshakeStage /\ spc' # spc) =>
        IF /\ sread' = sread + 1
           /\ NextOut.t = (IF spc = "await_request" THEN "RequestUidGidMap" ELSE "Ready")
           /\ spc = "await_request" => senv'.mapped = "true"
        THEN spc' = (IF spc = "await_request" THEN "await_ready" ELSE "ready")
        ELSE spc' = "failed"

Prop_C12_Handshake == []Inv_C12_HandshakeOrder /\ [][Step_C12_WaitEnds]_vars

\* C12 witness: the mapping failed, the worker read UidGidMapResult(false)
\* and ended on InternalError with unshare as its only step.
Wit_C12_MappingFailed ==
    /\ senv.mapped = "false"
    /\ spc = "failed"
    /\ pread >= 2
    /\ pexit.why = "error"
    /\ pdone = <<"unshare">>

IsComplete(l) == l.t = "CmdComplete"

\* The ids of the commands the worker has answered with CmdComplete, in the
\* order of the answers.
Replies ==
    [i \in 1..Len(SelectSeq(pout, IsComplete)) |-> SelectSeq(pout, IsComplete)[i].id]

Front(q) == SubSeq(q, 1, Len(q) - 1)

\* C13 as stated: whenever the worker is about to read its next message or
\* has ended, every RunCmd it received has been answered by exactly one
\* CmdComplete, in request order; a worker that ended on Stop exited with
\* status 0 and sent nothing after its last answer.
Claim_C13_OneReplyPerCmd ==
    /\ ppc \in {"loop", "exited"} => Replies = pcmds
    /\ ppc = "running" => Replies = Front(pcmds)
    /\ pexit.why = "stop" =>
          /\ pexit.child = "0" /\ pexit.sub = "0"
          /\ LastOut.t \in {"Ready", "CmdComplete"}

\* C13 amended: a RunCmd is answered by exactly one CmdComplete before the
\* next read, in request order, unless spawning, feeding or awaiting the
\* command fails: then it gets no CmdComplete, the worker's last line is
\* InternalError and the worker has ended.  On Stop the worker ends with
\* status 0 without a further line, and an ended worker prints nothing.
Inv_C13_ReplyOrAbort ==
    /\ ppc = "loop" => Replies = pcmds
    /\ ppc = "running" => Replies = Front(pcmds)
    /\ ppc = "exited" =>
          \/ Replies = pcmds
          \/ /\ Replies = Front(pcmds)
             /\ pexit.why = "error"
             /\ LastOut.t = "InternalError"
    /\ pexit.why = "stop" =>
          /\ pexit.child = "0" /\ pexit.sub = "0"
          /\ Replies = pcmds
          /\ LastOut.t \in {"Ready", "CmdComplete"}

Step_C13_Quiet ==
    /\ ppc = "exited" => pout' = pout
    /\ (ppc = "loop" /\ pexit'.why = "stop") => pout' = pout

Prop_C13_Replies == []Inv_C13_ReplyOrAbort /\ [][Step_C13_Quiet]_vars

\* C13 witness: two commands answered in order, then a clean stop.
Wit_C13_TwoThenStop ==
    /\ pcmds = <<1, 2>>
    /\ Replies = <<1, 2>>
    /\ pexit.why = "stop"

\* C14: a line read in the command loop that is neither RunCmd nor Stop
\* (another message, or a line that is no message at all) does not end the
\* worker and produces no line: the worker stays in its loop.
Step_C14_Ignored ==
    (ppc = "loop" /\ pread' = pread + 1 /\ NextIn.t \notin {"RunCmd", "Stop"}) =>
        /\ ppc' = "loop"
        /\ pout' = pout
        /\ pexit' = pexit

Claim_C14_IgnoresGarbled == [][Step_C14_Ignored]_vars

\* The part of C14 the loop does implement: a well-formed message of
\* another kind is skipped.
Step_C14_SkipsOtherKinds ==
    (ppc = "loop" /\ pread' = pread + 1 /\ NextIn.t \notin {"RunCmd", "Stop", "Garbled"}) =>
        /\ ppc' = "loop"
        /\ pout' = pout
        /\ pexit' = pexit

Aux_C14_SkipsOtherKinds == [][Step_C14_SkipsOtherKinds]_vars

\* The exit status of the process that ran _run_from_child to its end: the
\* grandchild once unshare has forked, the direct child before.
WorkerStatus == IF pexit.sub = "unborn" THEN pexit.child ELSE pexit.sub

\* C15: a worker that ended by itself has exit status 0 exactly when it
\* ended on Stop, and a worker that has sent InternalError ends with a
\* status other than 0.
Claim_C15_ExitStatus ==
    (ppc = "exited" /\ pexit.why \in {"stop", "error"}) =>
        /\ WorkerStatus = "0" <=> pexit.why = "stop"
        /\ Sent("InternalError") => WorkerStatus # "0"

\* ------------------------------------------------------------------------
\* Properties of save_run (SpecSave)
\* ------------------------------------------------------------------------

\* The i-th call was made for a contestant while the contest was running
\* and returned Ok.
Counted(i) == vruns[i].eligible /\ vruns[i].ok

\* The first counted successful run; 0 if there is none.
FirstSuccess ==
    IF \E i \in 1..Len(vruns) : Counted(i) /\ vruns[i].success
    THEN CHOOSE i \in 1..Len(vruns) :
            /\ Counted(i) /\ vruns[i].success
            /\ \A j \in 1..(i - 1) : ~(Counted(j) /\ vruns[j].success)
    ELSE 0

\* The counted failed runs with penalty_applies before the first success.
WrongBefore ==
    {i \in 1..Len(vruns) :
        /\ Counted(i) /\ ~vruns[i].success /\ vruns[i].penalty
        /\ FirstSuccess = 0 \/ i < FirstSuccess}

\* C19: over the save_run calls made for one participant and problem,
\* completed_at is the time of the first successful run saved for a
\* contestant in a running contest (NULL before it); number_wrong is the
\* number of such runs that failed with penalty_applies before that first
\* success; the row is written once by each such call and never by a call
\* made for a judge, for a user who is no participant or while the contest
\* is not running, nor by a call that failed.
Inv_C19_Completion ==
    /\ vcompl.completed_at = (IF FirstSuccess = 0 THEN 0 ELSE vruns[FirstSuccess].ran_at)
    /\ vcompl.number_wrong = Cardinality(WrongBefore)
    /\ vcompl.upserts = Cardinality({i \in 1..Len(vruns) : Counted(i)})
    /\ vcompl.exists <=> vcompl.upserts > 0

\* Once set, completed_at keeps its value; number_wrong never changes after
\* it, and a call that is not counted changes nothing.
Step_C19_Stable ==
    /\ vcompl.completed_at # 0 =>
          /\ vcompl'.completed_at = vcompl.completed_at
          /\ vcompl'.number_wrong = vcompl.number_wrong
    /\ (Len(vruns') > Len(vruns) /\ ~(vruns'[Len(vruns')].eligible /\ vruns'[Len(vruns')].ok)) =>
          vcompl' = vcompl

Prop_C19_Completion == []Inv_C19_Completion /\ [][Step_C19_Stable]_vars

\* C19 witness: a penalized failure, then a success, then another
\* penalized failure, each saved for a contestant in a running contest.
Wit_C19_FailSuccessFail ==
    /\ Len(vruns) = 3
    /\ \A i \in 1..3 : Counted(i)
    /\ ~vruns[1].success /\ vruns[1].penalty
    /\ vruns[2].success
    /\ ~vruns[3].success /\ vruns[3].penalty
    /\ vcompl.completed_at = 2
    /\ vcompl.number_wrong = 1

\* ------------------------------------------------------------------------
\* Properties of the stat checks (SpecStat)
\* ------------------------------------------------------------------------

\* The CPU delta of the cgroup since base_stats (it never shrinks).
CpuDelta == tcg.cpu_usage_usec - tbase.cpu_usage_usec

CpuCeiling == tlimit * USEC_PER_SEC

\* C25: a tracked run command whose CPU delta is still under
\* cpu_limit_seconds * 1,000,000 microseconds has not been reported as
\* CpuTimeExceeded; once a poll tick or the check at completion has read a
\* delta over that ceiling, the command has ended with CpuTimeExceeded
\* carrying the delta that was read.  A delta under the ceiling read at
\* completion, without a memory.high event, lets the command succeed.
Inv_C25_CpuCeiling ==
    /\ CpuDelta < CpuCeiling => tres.kind # "CpuTimeExceeded"
    /\ (tobs.at = "completion" /\ tobs.diff.cpu_usage_usec < CpuCeiling
          /\ tobs.diff.high_memory_breaks = 0) => tres.kind = "Ok"
    /\ (tobs.at \in {"poll", "completion"} /\ tobs.diff.cpu_usage_usec > CpuCeiling) =>
          /\ tpc = "done"
          /\ tres = [kind |-> "CpuTimeExceeded", usage |-> tobs.diff.cpu_usage_usec]

\* C25 witness: with base counters that are not zero, a poll tick read a
\* delta of one microsecond over a ceiling of two seconds and the command
\* ended with CpuTimeExceeded(2000001).
Wit_C25_JustOverAtPoll ==
    /\ tlimit = 2
    /\ tbase.cpu_usage_usec = 5
    /\ tobs.at = "poll"
    /\ tres = [kind |-> "CpuTimeExceeded", usage |-> 2000001]


\* The counters of the cgroup since the RunCmd of the command was sent.
SinceSent == StatsSub(tcg, tcmd.sent)

\* C32: the CPU and memory-high checks of a run command use the delta since
\* the baseline taken right before its RunCmd was sent: the baseline of a
\* command in flight is the counters at its send, a delta that was read is
\* not negative and not more than what the cgroup used since the send, and
\* CpuTimeExceeded / MemoryLimitExceeded are returned only if the CPU used
\* since the send reached the ceiling / a memory.high event happened since
\* the send, whatever the compile step or earlier cases used.
Inv_C32_DeltaSinceBaseline ==
    /\ tpc = "awaiting" => tbase = tcmd.sent
    /\ tobs.at # "none" =>
          /\ tbase = tcmd.sent
          /\ tobs.diff.cpu_usage_usec >= 0
          /\ tobs.diff.high_memory_breaks >= 0
          /\ tobs.diff.cpu_usage_usec <= SinceSent.cpu_usage_usec
          /\ tobs.diff.high_memory_breaks <= SinceSent.high_memory_breaks
    /\ tres.kind = "CpuTimeExceeded" =>
          /\ SinceSent.cpu_usage_usec >= CpuCeiling
          /\ tres.usage = tobs.diff.cpu_usage_usec
    /\ tres.kind = "MemoryLimitExceeded" => SinceSent.high_memory_breaks > 0
    /\ (tobs.at = "completion" /\ SinceSent.cpu_usage_usec < CpuCeiling
          /\ SinceSent.high_memory_breaks = 0) => tres.kind = "Ok"

\* C32 witness: the second tracked command started when the cgroup had
\* already used more CPU than the ceiling and had a memory.high event from
\* before; it used one microsecond less than the ceiling and succeeded.
Wit_C32_LaterCasePasses ==
    /\ tcmd.n = 2
    /\ tcmd.sent.cpu_usage_usec >= CpuCeiling
    /\ tcmd.sent.high_memory_breaks = 1
    /\ tobs = [at |-> "completion", diff |-> CGroupStats(0, CpuCeiling - 1)]
    /\ tres.kind = "Ok"

\* ------------------------------------------------------------------------
\* Properties of check_output (SpecCase)
\* ------------------------------------------------------------------------

\* A step that leaves use_regex alone: white space was added to or removed
\* from the end of the output or of the pattern.
WhitespaceStep ==
    /\ cverdict # "none"
    /\ ccase'.use_regex = ccase.use_regex
    /\ <<ccase, coutput>>' # <<ccase, coutput>>

\* C28: check_output gives the same verdict when trailing white space is
\* added to or removed from the output or the expected pattern, for every
\* combination of use_regex and case_insensitive.
Claim_C28_TrailingWhitespace ==
    [][WhitespaceStep => cverdict' = cverdict]_vars

\* What holds of the code: the verdict does not depend on white space at
\* the end of the output, and not on white space at the end of the pattern
\* when use_regex is off.
Aux_C28_OutputOrLiteral ==
    [][(WhitespaceStep /\ (ccase' = ccase \/ ~ccase.use_regex)) => cverdict' = cverdict]_vars

NoMeta(pattern) == \A k \in 1..Len(pattern) : pattern[k] \notin MetaChars

\* C29: for an expected pattern without regex metacharacters the verdict on
\* any output is the same with use_regex on and off (case_insensitive
\* unchanged).
Claim_C29_LiteralRegex ==
    [][(/\ cverdict # "none"
        /\ ccase'.use_regex # ccase.use_regex
        /\ NoMeta(ccase.expected_pattern)) => cverdict' = cverdict]_vars

\* What holds of the code: an output accepted by a literal pattern that has
\* no white space at its ends is accepted by the same pattern as a regex;
\* the regex accepts every output that contains the pattern.
Aux_C29_LiteralImpliesRegex ==
    (/\ NoMeta(ccase.expected_pattern)
     /\ trim(ccase.expected_pattern) = ccase.expected_pattern
     /\ check_output([ccase EXCEPT !.use_regex = FALSE], coutput))
        => check_output([ccase EXCEPT !.use_regex = TRUE], coutput)


\* ------------------------------------------------------------------------
\* Properties of the cgroup tree (SpecCg)
\* ------------------------------------------------------------------------

\* The cgroup named after the service that holds the PID of the service.
ServiceCgroup == gself

\* C30: the cgroup of every Worker is a direct child of the service cgroup
\* (the group named after the service, into which the service moved its
\* PID), never its sibling.
Claim_C30_ChildOfService ==
    \A id \in WorkerIds :
        gworkers[id].st = "live" =>
            /\ CgParent(gworkers[id].path) = ServiceCgroup
            /\ CgParent(gworkers[id].path) # CgParent(ServiceCgroup)

\* What holds of the code: the cgroup of a Worker lies in the group the
\* service inherited, next to the service cgroup; the PID of the service is
\* in the service cgroup, which has no child.
Aux_C30_SiblingOfService ==
    /\ \A id \in WorkerIds :
          gworkers[id].st = "live" =>
              /\ gcgroups.some
              /\ ServiceCgroup = gcgroups.service
              /\ CgParent(gworkers[id].path) = gcgroups.root
              /\ CgParent(gworkers[id].path) = CgParent(ServiceCgroup)
              /\ gworkers[id].path \in gfs
    /\ gcgroups.some =>
          \A cg \in gfs : cg # <<>> => CgParent(cg) # gcgroups.service


\* ------------------------------------------------------------------------
\* Properties of the timed waits (SpecWait)
\* ------------------------------------------------------------------------

\* The ceiling the contract gives a wait: the user timeout for the reply to
\* a compile or run command, the internal timeout for the handshake
\* messages and for the exit of the child.
Ceiling(site) == IF site = "reply" THEN hcfg.user ELSE hcfg.internal

\* C33: the wait for the reply to a compile or run command is bounded by
\* the user timeout, the waits for the handshake messages and for the exit
\* of the child by the internal timeout: a wait in progress has not passed
\* its ceiling (when that is not 0), and a wait that ended with the hard
\* timeout ended when the clock stood at its ceiling.
Inv_C33_Ceilings ==
    /\ hpc = "waiting" =>
          /\ hwait.site \in WaitSites
          /\ hwait.timeout = Ceiling(hwait.site)
          /\ Ceiling(hwait.site) # 0 => hclock <= Ceiling(hwait.site)
    /\ hres.res = "HardTimeout" =>
          /\ Ceiling(hres.site) # 0
          /\ hres.at = Ceiling(hres.site)
    /\ (hres.res # "none" /\ Ceiling(hres.site) # 0) => hres.at <= Ceiling(hres.site)

\* C33 witness: with a user timeout of 2 s and an internal timeout of 1 s
\* the handshake went through, a command got no reply and its wait ended
\* with the hard timeout after 2 s.
Wit_C33_ReplyAtUserCeiling ==
    /\ hcfg = [user |-> 2, internal |-> 1]
    /\ hres = [site |-> "reply", res |-> "HardTimeout", at |-> 2]
    /\ hpc = "ended"


\* ------------------------------------------------------------------------
\* Properties of the removal of a cgroup (SpecRm)
\* ------------------------------------------------------------------------

\* At most N+1 rmdir attempts and N cgroup.kill writes; every failed rmdir
\* but the last is followed by a write; Ok is returned without an attempt
\* for a cgroup that does not exist and otherwise right after the rmdir that
\* succeeded; an error is returned after N+1 failed attempts and N writes
\* (or by a write that failed).
Inv_C35_Bounded ==
    /\ rlog.rmdirs <= SHUTDOWN_GIVE_UP_COUNT + 1
    /\ rlog.kills <= SHUTDOWN_GIVE_UP_COUNT
    /\ rtimes <= SHUTDOWN_GIVE_UP_COUNT
    /\ rpc \in {"rmdir", "start"} => rlog.kills = rlog.rmdirs
    /\ rpc = "ok" =>
          /\ rdir = "absent"
          /\ rlog.rmdirs = 0 \/ rlog.kills = rlog.rmdirs - 1
    /\ rpc = "err" =>
          \/ rlog.rmdirs = SHUTDOWN_GIVE_UP_COUNT + 1 /\ rlog.kills = SHUTDOWN_GIVE_UP_COUNT
          \/ rlog.kills = rlog.rmdirs /\ rlog.kills <= SHUTDOWN_GIVE_UP_COUNT

\* C35: the removal of a cgroup terminates, with Ok or with an error, after
\* at most N+1 rmdir attempts and at most N writes of cgroup.kill; it
\* returns Ok as soon as one rmdir succeeds or when the cgroup does not
\* exist, and gives up with an error once the N retries are used up.
Prop_C35_RemovalTerminates ==
    /\ []Inv_C35_Bounded
    /\ <>(rpc \in {"ok", "err"})

\* C35 witness: the processes of the cgroup never went away: the removal
\* made N+1 = 5 rmdir attempts and N = 4 writes and returned the error.
Wit_C35_GaveUp ==
    /\ rpc = "err"
    /\ rdir = "present"
    /\ rprocs > 0
    /\ rlog = [rmdirs |-> SHUTDOWN_GIVE_UP_COUNT + 1, kills |-> SHUTDOWN_GIVE_UP_COUNT]


\* ------------------------------------------------------------------------
\* Properties of the lines between Worker and worker process (SpecPair)
\* ------------------------------------------------------------------------

\* C37: every CmdComplete consumed by a call of _exec_cmd is the reply to
\* the RunCmd sent in that call: no CmdComplete written while an earlier
\* RunCmd was being run is taken as the result of a later command.
Claim_C37_Pairing ==
    qres.reply.msg \in CmdCompleteLines => qres.reply.of = qres.n


\* ------------------------------------------------------------------------
\* Properties of Worker::new (SpecNew)
\* ------------------------------------------------------------------------

\* C38: when Worker::new returns an error, whichever step failed, no temp
\* directory, no cgroup and no child process made by the call remains
\* (a directory whose removal was tried and failed is left out of account).
Claim_C38_NothingRemains ==
    nret = "err" => (nfs.tmp # "exists" /\ nfs.cgroup # "exists" /\ nchild # "alive")


\* ------------------------------------------------------------------------
\* Properties of the sub-id maps (SpecId)
\* ------------------------------------------------------------------------

\* The outside ids of the pair are in the range and differ.
InRangeDistinct(m, r) ==
    /\ m.root \in r.start..(r.end - 1)
    /\ m.runner \in r.start..(r.end - 1)
    /\ m.root # m.runner

\* C39: the outside ids chosen for the root mapping and for the runner
\* mapping lie in the allowed range and are different from each other, for
\* UIDs and for GIDs; a range of fewer than 2 ids is rejected.
Claim_C39_InRangeDistinct ==
    /\ ipc = "done" =>
          /\ InRangeDistinct(imaps.uid, iranges.uid)
          /\ InRangeDistinct(imaps.gid, iranges.gid)
    /\ ipc \in {"uid", "gid", "done"} =>
          (RangeLen(iranges.uid) >= 2 /\ RangeLen(iranges.gid) >= 2)


\* ------------------------------------------------------------------------
\* Properties of the locks of the RunManager (SpecLock)
\* ------------------------------------------------------------------------

\* Whoever holds a lock another one waits for can take its next step: an
\* operation waits only for a slot whose task can release it, a task only
\* for an operation that can release the slot.
Inv_C40_NoWaitCycle ==
    /\ \A j \in JobIds :
          (lop.pc = "in_mgr" /\ lop.left # <<>> /\ Head(lop.left) = j /\ lslot[j] = "task")
              => ENABLED TaskTake(j)
    /\ \A j \in JobIds :
          (ltask[j] = "want_slot" /\ lslot[j] = "op") => ENABLED OpSlotUnlock
    /\ \A j \in JobIds : (lslot[j] = "task") = (ltask[j] = "in_slot")
    /\ (\E j \in JobIds : lslot[j] = "op") = (lop.pc = "in_slot")

\* C40: request_job, get_handle, shutdown_job, shutdown and all_active_jobs,
\* called under the manager mutex, and the slot release of finishing tasks
\* never deadlock: every operation completes, and a finishing task gets the
\* lock of its slot and ends.
Prop_C40_NoDeadlock ==
    /\ []Inv_C40_NoWaitCycle
    /\ (lop.op # "none") ~> (lop.op = "none")
    /\ \A j \in JobIds : (ltask[j] = "want_slot") ~> (ltask[j] = "done")

\* C40 witness: shutdown() holds the manager mutex and waits for the lock
\* of the slot of job 1, which the finishing task of job 1 holds, while the
\* task of job 2 has finished too.
Wit_C40_OpWaitsForTask ==
    /\ lop.op = "shutdown" /\ lop.pc = "in_mgr" /\ Len(lop.left) = 2
    /\ Head(lop.left) = 1
    /\ lslot[1] = "task"
    /\ ltask[2] \in {"want_slot", "in_slot"}

====
